---- MODULE Spec2Model ----
(***************************************************************************)
(* Authentication and single-session enforcement of the load-board server: *)
(* login, refreshTokens, forceLogout, logout-all and the billing sweeper,  *)
(* as interleavings of their database round trips (every await is a step). *)
(***************************************************************************)
EXTENDS Integers, Sequences, FiniteSets, Bags, TLC

\* ---------------------------------------------------------------- bounds
MaxReq == 2      \* requests (login / refresh / forceLogout / logout-all) per run
MaxBillingReq == 1 \* login requests per run beside the clock and the sweeper
MaxTravelReq == 1 \* login requests per run from any of the places
TickMinutes == 24 * 60 \* the clock counts days: minutes between two instants
MaxPlanReq == 2  \* billing requests of the admin (start-cycle / add-payment / set-trial)
Margin == 1      \* the travel rule is asked about distances and times this near its bounds
MaxTime == 3     \* the clock runs 1..MaxTime
PlanEnd == 2     \* trialEndDate / billingCycleEndDate of the user with a plan

\* ---------------------------------------------------------------- values
NULL == 0        \* a nullable column holding null (tokens and dates start at 1)
Users == {"alice", "bob"}
Emails == Users \cup {"nobody"}
Reqs == 1..MaxReq
BillingReqs == 1..MaxBillingReq
TravelReqs == 1..MaxTravelReq
MaxBundleReq == 2 \* requests about the shared session per run
BundleReqs == 1..MaxBundleReq
PlanReqs == 1..MaxPlanReq
Places == {"New York", "San Francisco"}   \* what getLocationFromIP resolves to
Home == "New York"
BillingActions == {"AUTO_DISABLED", "CYCLE_STARTED", "PAYMENT_ADDED", "TRIAL_STARTED"}
PlanCycles == {"DAILY", "MONTHLY"}        \* the cycles the admin asks for
TrialHours == {24}                         \* the trial lengths the admin asks for
BillingCycles == {"DAILY", "WEEKLY", "MONTHLY", "THREE_MONTHS", "HALF_YEAR", "YEARLY"}

VARIABLES
    user,          \* User rows: status, currentSessionToken, billing fields
    sessions,      \* SessionActivity rows, in insertion (loginAt) order
    loginHistory,  \* LoginHistory rows per user: counts of success / failure rows
    alerts,        \* SecurityAlert rows: a bag of [alertType, severity, userId]
    billingHistory,\* BillingHistory rows per user: count per action
    minted,        \* number of token pairs issued so far (issueTokens)
    refreshSubs,   \* subjects of the refresh tokens issued so far
    now,           \* the clock
    req,           \* the requests in flight or finished, with their locals
    sweep,         \* the billing sweeper's position and locals
    travel,        \* one call of isSuspiciousLocationChange: arguments and result
    payments,      \* Payment rows, in insertion order
    planReq,       \* the admin's billing requests in flight or finished, with locals
    calc,          \* one call of calculateCycleEndDate: arguments and result
    atStart,       \* the User and BillingHistory tables as a run of sweeps found them
    datSessions,   \* DatSession rows, in insertion order
    domains,       \* number of Domain rows with baseUrl https://one.dat.com
    bundleReq,     \* the requests about the shared session, with their locals
    alertFlags,    \* isRead / isDismissed of the SecurityAlert rows, in insertion order
    poll,          \* the client's session validation timer, its counter and results
    manual,        \* the sweep POST /billing/check-expired runs: its position and locals
    jobs,          \* the billing job module: billingJob, the timers it set, the sweeps it started
    proxy,         \* the client's proxy login handler: proxyAuthAttempts, reset timers, dialogs shown
    form,          \* the login form of the client: emailEntered, isLoggingIn, logins in flight
    launcher,      \* the client's launchSession: isLaunchingSession and the calls made so far
    tabManager     \* the client's TabManager: tabs (keys in insertion order), activeTabId, tabCounter, its window

\* the tables and requests of the shared session service
bundleVars == <<datSessions, domains, bundleReq>>

\* the client and scheduler variables
lateVars == <<manual, jobs, proxy, form, launcher, tabManager>>
manualOthers == <<calc, atStart, bundleVars, alertFlags, poll, jobs, proxy, form, launcher, tabManager>>
jobsOthers == <<calc, atStart, bundleVars, alertFlags, poll, manual, proxy, form, launcher, tabManager>>
proxyOthers == <<calc, atStart, bundleVars, alertFlags, poll, manual, jobs, form, launcher, tabManager>>
formOthers == <<calc, atStart, bundleVars, alertFlags, poll, manual, jobs, proxy, launcher, tabManager>>
launcherOthers == <<calc, atStart, bundleVars, alertFlags, poll, manual, jobs, proxy, form, tabManager>>
tabManagerOthers == <<calc, atStart, bundleVars, alertFlags, poll, manual, jobs, proxy, form, launcher>>

\* the variables only the specifications of single services write
serviceVars == <<calc, atStart, bundleVars, alertFlags, poll, lateVars>>

\* the variables no login, refresh, logout, sweep or clock step writes
otherVars == <<travel, payments, planReq, serviceVars>>

\* the variables no billing request writes
sessionVars == <<sessions, loginHistory, alerts, minted, refreshSubs, now, req,
                 sweep, travel, serviceVars>>

vars == <<user, sessions, loginHistory, alerts, billingHistory, minted,
          refreshSubs, now, req, sweep, otherVars>>

\* ---------------------------------------------------------------- helpers
IdleReq ==
    [op |-> "idle", pc |-> "idle", uid |-> "nobody", pwOk |-> FALSE, meta |-> FALSE,
     peers |-> {},
     snap |-> [status |-> "NONE", isTrialActive |-> FALSE, trialEndDate |-> NULL,
               isBillingActive |-> FALSE, billingCycleEndDate |-> NULL],
     at |-> NULL, existing |-> <<>>, idx |-> 0, tok |-> NULL,
     sessTok |-> NULL, sessActive |-> FALSE, result |-> "none", message |-> "",
     found |-> 0, invalidated |-> 0, alerted |-> 0,
     place |-> "none", previousLocation |-> "none", previousAt |-> NULL]

\* isExpired with the end instant itself counted as expired
IsExpiredAtEnd(u, t) ==
    IF u.isTrialActive /\ u.trialEndDate # NULL
    THEN u.trialEndDate <= t
    ELSE IF u.isBillingActive /\ u.billingCycleEndDate # NULL
         THEN u.billingCycleEndDate <= t
         ELSE FALSE

\* getUserBillingStatus(...).isExpired for the user row u at instant t
IsExpired(u, t) ==
    IF u.isTrialActive /\ u.trialEndDate # NULL
    THEN u.trialEndDate < t
    ELSE IF u.isBillingActive /\ u.billingCycleEndDate # NULL
         THEN u.billingCycleEndDate < t
         ELSE FALSE

\* the billing fields and status of a user row, as login keeps them in `user`
Snapshot(u) ==
    [status |-> u.status, isTrialActive |-> u.isTrialActive,
     trialEndDate |-> u.trialEndDate, isBillingActive |-> u.isBillingActive,
     billingCycleEndDate |-> u.billingCycleEndDate]

\* ids of the SessionActivity rows of user u with isActive = true
ActiveIds(u) ==
    {i \in 1..Len(sessions) : sessions[i].userId = u /\ sessions[i].isActive}

RECURSIVE DescTokens(_)
\* the sessionToken of the rows in S, latest row first (orderBy loginAt desc)
DescTokens(S) ==
    IF S = {} THEN <<>>
    ELSE LET m == CHOOSE i \in S : \A j \in S : j <= i
         IN <<sessions[m].sessionToken>> \o DescTokens(S \ {m})

\* getUserActiveSessions(userId), projected on sessionToken
getUserActiveSessions(u) == DescTokens(ActiveIds(u))

\* prisma.sessionActivity.updateMany({where: {sessionToken, isActive: true}, ...})
invalidateSession(rows, token, reason, t) ==
    [i \in 1..Len(rows) |->
        IF rows[i].sessionToken = token /\ rows[i].isActive
        THEN [rows[i] EXCEPT !.isActive = FALSE, !.logoutAt = t, !.logoutReason = reason]
        ELSE rows[i]]

\* updated.count of that updateMany: the rows it matches
updatedCount(rows, token) ==
    Cardinality({i \in 1..Len(rows) : rows[i].sessionToken = token /\ rows[i].isActive})

\* prisma.sessionActivity.updateMany({where: {userId, isActive: true}, ...})
invalidateAllUserSessions(rows, u, reason, t) ==
    [i \in 1..Len(rows) |->
        IF rows[i].userId = u /\ rows[i].isActive
        THEN [rows[i] EXCEPT !.isActive = FALSE, !.logoutAt = t, !.logoutReason = reason]
        ELSE rows[i]]

\* createSession as an upsert: the user's latest row is taken over when there is one
createSessionReusingRow(rows, u, token, loc, t) ==
    LET mine == {i \in 1..Len(rows) : rows[i].userId = u}
        last == CHOOSE i \in mine : \A j \in mine : j <= i
        fresh == [userId |-> u, sessionToken |-> token, isActive |-> TRUE,
                  logoutAt |-> NULL, logoutReason |-> "none",
                  location |-> loc, loginAt |-> t]
    IN IF mine = {} THEN Append(rows, fresh) ELSE [rows EXCEPT ![last] = fresh]

\* prisma.sessionActivity.create(...) in createSession; loc is what
\* getLocationFromIP gave for the request's IP, t the row's loginAt default now()
createSession(rows, u, token, loc, t) ==
    Append(rows, [userId |-> u, sessionToken |-> token, isActive |-> TRUE,
                  logoutAt |-> NULL, logoutReason |-> "none",
                  location |-> loc, loginAt |-> t])

\* geolocation.ts calculateDistance (haversine, km, rounded) between the
\* coordinates of two places
calculateDistance(a, b) == IF a = b THEN 0 ELSE 4130

\* isSuspiciousLocationChange: the distance and time bounds of its two rules
FastKm == 500
FastMinutes == 60
FarKm == 2000
FarMinutes == 180

\* the rules with the distance bounds counted as suspicious themselves
isSuspiciousFromBound(distance, timeDiffMinutes) ==
    \/ distance >= FastKm /\ timeDiffMinutes < FastMinutes
    \/ distance >= FarKm /\ timeDiffMinutes < FarMinutes

\* geolocation.ts isSuspiciousLocationChange, on distance = calculateDistance(...)
isSuspiciousLocationChange(distance, timeDiffMinutes) ==
    IF distance > FastKm /\ timeDiffMinutes < FastMinutes THEN TRUE
    ELSE IF distance > FarKm /\ timeDiffMinutes < FarMinutes THEN TRUE
    ELSE FALSE

\* createFailedLoginAlert: attemptCount from which the alert is HIGH
FailedAlertHighAt == 5

\* createSecurityAlert: one more SecurityAlert row in the table al
createSecurityAlert(al, type, sev, uid) ==
    al (+) SetToBag({[alertType |-> type, severity |-> sev, userId |-> uid]})

\* createFailedLoginAlert({attemptCount, ...}); the row carries no userId
createFailedLoginAlert(al, attemptCount) ==
    createSecurityAlert(al, "FAILED_LOGIN_ATTEMPT",
                        IF attemptCount >= FailedAlertHighAt THEN "HIGH" ELSE "MEDIUM",
                        "nobody")

\* createMultipleDeviceLoginAlert({userId, ...})
createMultipleDeviceLoginAlert(al, u) ==
    createSecurityAlert(al, "MULTIPLE_DEVICE_LOGIN", "MEDIUM", u)

\* signAccessToken: the access token of the (minted+1)-th issued pair
signAccessToken == minted + 1

\* the requests in flight: started and not yet answered
InFlight == {q \in DOMAIN req : req[q].pc \notin {"idle", "done"}}

\* a request slot is taken in order, so equal runs are not explored twice
CanStart(r) ==
    /\ req[r].op = "idle"
    /\ IF r = 1 THEN TRUE ELSE req[r - 1].op # "idle"

Finish(r, res) ==
    [req[r] EXCEPT !.pc = "done", !.result = res, !.existing = <<>>, !.idx = 0]

\* ---------------------------------------------------------------- dates
\* A date is a count of days; instant 1 of the clock is 30 January 2024, and
\* every date of a run has the same time of day.
FirstDay == [year |-> 2024, month |-> 1, day |-> 30]
Years == FirstDay.year..(FirstDay.year + 8)

IsLeap(y) == (y % 4 = 0 /\ y % 100 # 0) \/ y % 400 = 0

DaysInMonth(y, m) ==
    IF m = 2 THEN (IF IsLeap(y) THEN 29 ELSE 28)
    ELSE IF m \in {4, 6, 9, 11} THEN 30 ELSE 31

RECURSIVE DaysBeforeMonth(_, _)
\* days of year y before the first of month m
DaysBeforeMonth(y, m) ==
    IF m = 1 THEN 0 ELSE DaysBeforeMonth(y, m - 1) + DaysInMonth(y, m - 1)

RECURSIVE DaysBeforeYear(_)
\* days from 1 January of FirstDay.year to 1 January of year y
DaysBeforeYear(y) ==
    IF y = FirstDay.year THEN 0
    ELSE DaysBeforeYear(y - 1) + (IF IsLeap(y - 1) THEN 366 ELSE 365)

\* new Date(y, m, d): months past December run into the next year and days past
\* the end of the month run into the next month, as JavaScript's Date does
DateOf(y, m, d) ==
    LET yy == y + ((m - 1) \div 12)
        mm == ((m - 1) % 12) + 1
    IN DaysBeforeYear(yy) + DaysBeforeMonth(yy, mm) + d
         - (DaysBeforeMonth(FirstDay.year, FirstDay.month) + FirstDay.day - 1)

\* getFullYear / getMonth (1-based here) / getDate of the date n
Civil(n) ==
    LET y == CHOOSE yy \in Years : DateOf(yy, 1, 1) <= n /\ n < DateOf(yy + 1, 1, 1)
        m == CHOOSE mm \in 1..12 : DateOf(y, mm, 1) <= n /\ n < DateOf(y, mm + 1, 1)
    IN [year |-> y, month |-> m, day |-> n - DateOf(y, m, 1) + 1]

\* billing.service.ts calculateCycleEndDate(startDate, cycle)
calculateCycleEndDate(startDate, cycle) ==
    LET c == Civil(startDate)
    IN CASE cycle = "DAILY" -> DateOf(c.year, c.month, c.day + 1)
         [] cycle = "WEEKLY" -> DateOf(c.year, c.month, c.day + 7)
         [] cycle = "MONTHLY" -> DateOf(c.year, c.month + 1, c.day)
         [] cycle = "THREE_MONTHS" -> DateOf(c.year, c.month + 3, c.day)
         [] cycle = "HALF_YEAR" -> DateOf(c.year, c.month + 6, c.day)
         [] cycle = "YEARLY" -> DateOf(c.year + 1, c.month, c.day)

\* a billing request of the admin before it starts
IdlePlan ==
    [op |-> "idle", pc |-> "idle", uid |-> "nobody", cycle |-> "none", at |-> NULL,
     statusRead |-> "NONE", endRead |-> NULL, start |-> NULL, end |-> NULL,
     payment |-> 0]

\* a billing request once it is answered: its locals are gone
DonePlan(a) == [IdlePlan EXCEPT !.op = planReq[a].op, !.pc = "done"]

\* ---------------------------------------------------------------- Init
\* nobody has called calculateCycleEndDate
InitCalc == calc = [startDate |-> 1, cycle |-> "DAILY", asked |-> FALSE, endDate |-> NULL]

\* no run of sweeps is being followed
InitAtStart == atStart = [user |-> <<>>, billingHistory |-> <<>>]

\* a shared-session request before it starts
IdleBundleReq == [op |-> "idle", pc |-> "idle", id |-> 0, result |-> "none", row |-> 0]

\* no DatSession or Domain row, nobody has asked for the shared session
InitDat ==
    /\ datSessions = <<>>
    /\ domains = 0
    /\ bundleReq = [r \in BundleReqs |-> IdleBundleReq]

\* no SecurityAlert row
InitFlags == alertFlags = <<>>

\* no client is polling: sessionValidationInterval is null
InitPoll ==
    poll = [running |-> FALSE, consecutiveFailures |-> 0, inFlight |-> 0,
            logout |-> "no", results |-> <<>>]

\* nobody has asked for a sweep
InitManual ==
    manual = [pc |-> "idle", at |-> NULL, billing |-> <<>>, trial |-> <<>>]

\* the server has not started its billing job
InitJobs ==
    jobs = [billingJob |-> FALSE, tasks |-> 0, timers |-> 0, starts |-> 0, sweeps |-> 0, stopped |-> FALSE]

\* no proxy has asked for credentials
InitProxy ==
    proxy = [attempts |-> [k \in {"proxyA:3128", "proxyB:3128"} |-> 0], timers |-> [k \in {"proxyA:3128", "proxyB:3128"} |-> 0], supplied |-> [k \in {"proxyA:3128", "proxyB:3128"} |-> 0], dialogs |-> [k \in {"proxyA:3128", "proxyB:3128"} |-> 0], events |-> 0]

\* the login window has just loaded
InitForm ==
    form = [emailEntered |-> FALSE, isLoggingIn |-> FALSE, guarded |-> 0, unguarded |-> 0, issued |-> 0, ready |-> FALSE, submits |-> 0]

\* launchSession has not been called
InitLauncher ==
    launcher = [isLaunchingSession |-> FALSE, calls |-> <<>>]

\* a TabManager as its constructor leaves it, on a live window
InitTabManager ==
    tabManager = [tabs |-> <<>>, activeTabId |-> NULL, tabCounter |-> 0, windowDestroyed |-> FALSE]

\* the client and the scheduler as the program starts them
InitLate == InitManual /\ InitJobs /\ InitProxy /\ InitForm /\ InitLauncher /\ InitTabManager

\* the single services at rest
InitServices == InitCalc /\ InitAtStart /\ InitDat /\ InitFlags /\ InitPoll /\ InitLate

UserRow(status, trial, cycle) ==
    [status |-> status, currentSessionToken |-> NULL,
     isTrialActive |-> trial, trialEndDate |-> IF trial THEN PlanEnd ELSE NULL,
     isBillingActive |-> cycle, billingCycleStartDate |-> IF cycle THEN 1 ELSE NULL,
     billingCycleEndDate |-> IF cycle THEN PlanEnd ELSE NULL]

\* The tables with the user rows `rows`, after the user `pre` logged in once with
\* request metadata from Home at instant 1 (pre = "nobody": nobody has logged in
\* yet): that login holds token 1, the user's currentSessionToken and only SessionActivity row.
\* The clock shows the instant t.
InitAt(rows, pre, t) ==
    /\ user = [u \in Users |->
                  IF u = pre THEN [rows[u] EXCEPT !.currentSessionToken = 1] ELSE rows[u]]
    /\ sessions = IF pre \in Users THEN createSession(<<>>, pre, 1, Home, 1) ELSE <<>>
    /\ loginHistory = [u \in Users |-> [ok |-> IF u = pre THEN 1 ELSE 0, fail |-> 0]]
    /\ alerts = EmptyBag
    /\ billingHistory = [u \in Users |-> [a \in BillingActions |-> 0]]
    /\ minted = IF pre \in Users THEN 1 ELSE 0
    /\ refreshSubs = IF pre \in Users THEN {pre} ELSE {}
    /\ now = t
    /\ req = [r \in Reqs |-> IdleReq]
    /\ sweep = [pc |-> "idle", at |-> NULL, billing |-> <<>>, trial |-> <<>>]

\* the same tables at instant 1
InitWith(rows, pre) == InitAt(rows, pre, 1)

\* nothing else has been asked yet
InitPlan ==
    /\ payments = <<>>
    /\ planReq = [a \in PlanReqs |-> IdlePlan]

InitOther ==
    /\ travel = [distance |-> 0, timeDiffMinutes |-> 0, asked |-> FALSE,
                 suspicious |-> FALSE]
    /\ InitPlan
    /\ InitServices

\* two ACTIVE users, alice without a plan and bob on a trial; alice has not logged
\* in yet, or has logged in once
Init ==
    /\ InitOther
    /\ \E pre \in {"nobody", "alice"} :
        InitWith([u \in Users |-> IF u = "bob" THEN UserRow("ACTIVE", TRUE, FALSE)
                                  ELSE UserRow("ACTIVE", FALSE, FALSE)], pre)

\* bob, logged in once, on a trial or on a paid cycle ending at PlanEnd; alice
\* without a plan, ACTIVE or SUSPENDED by an operator
InitBilling ==
    /\ InitOther
    /\ \E plan \in {"trial", "cycle"}, st \in {"ACTIVE", "SUSPENDED"} :
        InitWith([u \in Users |->
                     IF u = "bob" THEN UserRow("ACTIVE", plan = "trial", plan = "cycle")
                     ELSE UserRow(st, FALSE, FALSE)], "bob")

\* ---------------------------------------------------------------- login
\* the gate without its status test
StatusGateMissingOnly(e) == e \notin Users

\* line 49: if (!user || user.status !== 'ACTIVE'), for the email e
StatusGate(e) == e \notin Users \/ user[e].status # "ACTIVE"

\* the wrong-password error, worded after its LoginHistory failureReason
BadPasswordErrorWorded == [status |-> "401", message |-> "Incorrect password"]

\* line 73: throw new AppError('Invalid email or password', 401)
UnknownUserError == [status |-> "401", message |-> "Invalid email or password"]

\* line 92: throw new AppError('Invalid email or password', 401)
BadPasswordError == [status |-> "401", message |-> "Invalid email or password"]

\* auth.service.ts login, lines 46-93: lookup, status gate, password check
LoginGate(r, e, pwOk, meta, place) ==
    /\ CanStart(r)
    /\ pwOk => e \in Users
    /\ LET base == [IdleReq EXCEPT !.op = "login", !.uid = e, !.pwOk = pwOk,
                                   !.meta = meta, !.at = now, !.peers = InFlight,
                                   !.snap = IF e \in Users THEN Snapshot(user[e]) ELSE @]
       IN IF StatusGate(e)
          THEN /\ req' = [req EXCEPT ![r] = [base EXCEPT !.pc = "done",
                                                   !.result = UnknownUserError.status,
                                                   !.message = UnknownUserError.message]]
               /\ IF meta /\ e \in Users
                  THEN /\ loginHistory' = [loginHistory EXCEPT ![e].fail = @ + 1]
                       /\ alerts' = createFailedLoginAlert(alerts, 1)
                  ELSE UNCHANGED <<loginHistory, alerts>>
          ELSE IF ~pwOk
          THEN /\ req' = [req EXCEPT ![r] = [base EXCEPT !.pc = "done",
                                                   !.result = BadPasswordError.status,
                                                   !.message = BadPasswordError.message]]
               /\ IF meta
                  THEN loginHistory' = [loginHistory EXCEPT ![e].fail = @ + 1]
                  ELSE UNCHANGED loginHistory
               /\ UNCHANGED alerts
          ELSE /\ req' = [req EXCEPT ![r] = [base EXCEPT !.pc = "sessions",
                                      !.place = IF meta THEN place ELSE "none"]]
               /\ UNCHANGED <<loginHistory, alerts>>
    /\ UNCHANGED <<user, sessions, billingHistory, minted, refreshSubs, now, sweep, otherVars>>

\* line 97: const existingSessions = await getUserActiveSessions(user.id)
LoginSessions(r) ==
    /\ req[r].op = "login" /\ req[r].pc = "sessions"
    /\ LET ex == getUserActiveSessions(req[r].uid)
           old == CHOOSE i \in ActiveIds(req[r].uid) : \A j \in ActiveIds(req[r].uid) : j <= i
       IN req' = [req EXCEPT ![r].existing = ex, ![r].idx = 1, ![r].found = Len(ex),
                             ![r].previousLocation =
                                 IF Len(ex) > 0 THEN sessions[old].location ELSE @,
                             ![r].previousAt =
                                 IF Len(ex) > 0 THEN sessions[old].loginAt ELSE @,
                             ![r].pc = IF Len(ex) > 0 THEN "invalidate" ELSE "commit"]
    /\ UNCHANGED <<user, sessions, loginHistory, alerts, billingHistory, minted,
                   refreshSubs, now, sweep, otherVars>>

\* lines 112-114: one pass of the loop over existingSessions
LoginInvalidate(r) ==
    /\ req[r].op = "login" /\ req[r].pc = "invalidate"
    /\ sessions' = invalidateSession(sessions, req[r].existing[req[r].idx], "new_login", now)
    /\ LET n == updatedCount(sessions, req[r].existing[req[r].idx])
       IN req' = IF req[r].idx < Len(req[r].existing)
                 THEN [req EXCEPT ![r].idx = @ + 1, ![r].invalidated = @ + n]
                 ELSE [req EXCEPT ![r].pc = "clear", ![r].invalidated = @ + n]
    /\ UNCHANGED <<user, loginHistory, alerts, billingHistory, minted, refreshSubs,
                   now, sweep, otherVars>>

\* lines 117-120: clear the user's current session token
LoginClear(r) ==
    /\ req[r].op = "login" /\ req[r].pc = "clear"
    /\ user' = [user EXCEPT ![req[r].uid].currentSessionToken = NULL]
    /\ req' = [req EXCEPT ![r].pc = IF req[r].meta THEN "alert" ELSE "commit"]
    /\ UNCHANGED <<sessions, loginHistory, alerts, billingHistory, minted, refreshSubs,
                   now, sweep, otherVars>>

\* the login going on without its multiple-device alert
LoginAlertSkipped(r) ==
    /\ req[r].op = "login" /\ req[r].pc = "alert"
    /\ req' = [req EXCEPT ![r].pc = "commit"]
    /\ UNCHANGED <<user, sessions, loginHistory, alerts, billingHistory, minted,
                   refreshSubs, now, sweep, otherVars>>

\* lines 123-138: createMultipleDeviceLoginAlert
LoginAlert(r) ==
    /\ req[r].op = "login" /\ req[r].pc = "alert"
    /\ alerts' = createMultipleDeviceLoginAlert(alerts, req[r].uid)
    /\ req' = [req EXCEPT ![r].pc = "commit", ![r].alerted = @ + 1]
    /\ UNCHANGED <<user, sessions, loginHistory, billingHistory, minted, refreshSubs,
                   now, sweep, otherVars>>

\* lines 141-152: issueTokens, then user.update({currentSessionToken: accessToken})
LoginCommit(r) ==
    /\ req[r].op = "login" /\ req[r].pc = "commit"
    /\ LET t == signAccessToken
       IN /\ minted' = minted + 1
          /\ refreshSubs' = refreshSubs \cup {req[r].uid}
          /\ user' = [user EXCEPT ![req[r].uid].currentSessionToken = t]
          /\ req' = IF req[r].meta
                    THEN [req EXCEPT ![r].tok = t, ![r].pc = "record"]
                    ELSE [req EXCEPT ![r] = [Finish(r, "ok") EXCEPT !.tok = t]]
    /\ UNCHANGED <<sessions, loginHistory, alerts, billingHistory, now, sweep, otherVars>>

\* lines 155-175: createLoginHistory(success) and createSession
LoginRecord(r) ==
    /\ req[r].op = "login" /\ req[r].pc = "record"
    /\ loginHistory' = [loginHistory EXCEPT ![req[r].uid].ok = @ + 1]
    /\ sessions' = createSession(sessions, req[r].uid, req[r].tok, req[r].place, now)
    /\ req' = [req EXCEPT ![r] = Finish(r, "ok")]
    /\ UNCHANGED <<user, alerts, billingHistory, minted, refreshSubs, now, sweep, otherVars>>

\* a login whose request IP resolves to one of the places P
LoginFrom(r, P) ==
    \/ \E e \in Emails, pwOk \in BOOLEAN, meta \in BOOLEAN, place \in P :
           LoginGate(r, e, pwOk, meta, place)
    \/ LoginSessions(r)
    \/ LoginInvalidate(r)
    \/ LoginClear(r)
    \/ LoginAlert(r)
    \/ LoginCommit(r)
    \/ LoginRecord(r)

\* a login from Home
Login(r) == LoginFrom(r, {Home})

\* ---------------------------------------------------------------- refresh
\* auth.service.ts refreshTokens, lines 189-194: verifyRefreshToken, findUnique,
\* status gate; every failure is rethrown as 401 by the catch at line 206.
\* rt is the subject of a refresh token issued earlier, or "nobody" for a token
\* that does not verify.

\* the gate with a test of the user's currentSessionToken added
RefreshAllowedIfCurrent(rt) ==
    rt \in Users /\ user[rt].status = "ACTIVE" /\ user[rt].currentSessionToken # NULL

\* lines 189-194: the token verifies, its subject exists and is ACTIVE
RefreshAllowed(rt) == rt \in Users /\ user[rt].status = "ACTIVE"

RefreshGate(r, rt) ==
    /\ CanStart(r)
    /\ rt \in refreshSubs \cup {"nobody"}
    /\ LET base == [IdleReq EXCEPT !.op = "refresh", !.uid = rt, !.at = now,
                                   !.peers = InFlight,
                                   !.snap = IF rt \in Users THEN Snapshot(user[rt]) ELSE @]
       IN IF RefreshAllowed(rt)
          THEN req' = [req EXCEPT ![r] = [base EXCEPT !.pc = "rcommit"]]
          ELSE req' = [req EXCEPT ![r] = [base EXCEPT !.pc = "done", !.result = "401",
                                              !.message = "Invalid refresh token"]]
    /\ UNCHANGED <<user, sessions, loginHistory, alerts, billingHistory, minted,
                   refreshSubs, now, sweep, otherVars>>

\* the refresh without its user update
RefreshUserUpdateSkipped(u, t) == user

\* lines 200-203: prisma.user.update({data: {currentSessionToken: accessToken}})
RefreshUserUpdate(u, t) == [user EXCEPT ![u].currentSessionToken = t]

\* lines 196-205: issueTokens, then user.update({currentSessionToken: accessToken})
RefreshCommit(r) ==
    /\ req[r].op = "refresh" /\ req[r].pc = "rcommit"
    /\ LET t == signAccessToken
       IN /\ minted' = minted + 1
          /\ user' = RefreshUserUpdate(req[r].uid, t)
          /\ req' = [req EXCEPT ![r] = [Finish(r, "ok") EXCEPT !.tok = t]]
    /\ UNCHANGED <<sessions, loginHistory, alerts, billingHistory, refreshSubs, now,
                   sweep, otherVars>>

Refresh(r) ==
    \/ \E rt \in Emails : RefreshGate(r, rt)
    \/ RefreshCommit(r)

\* ---------------------------------------------------------------- forceLogout
\* sessionActivity.service forceLogout, lines 173-187: findUnique by id
ForceFind(r, sid) ==
    /\ CanStart(r)
    /\ LET base == [IdleReq EXCEPT !.op = "forceLogout", !.at = now, !.peers = InFlight]
       IN IF sid \notin 1..Len(sessions)
          THEN req' = [req EXCEPT ![r] = [base EXCEPT !.pc = "done", !.result = "error"]]
          ELSE req' = [req EXCEPT ![r] = [base EXCEPT !.pc = "finvalidate",
                                              !.uid = sessions[sid].userId,
                                              !.sessTok = sessions[sid].sessionToken,
                                              !.sessActive = sessions[sid].isActive]]
    /\ UNCHANGED <<user, sessions, loginHistory, alerts, billingHistory, minted,
                   refreshSubs, now, sweep, otherVars>>

\* line 190: await invalidateSession(session.sessionToken, 'forced_by_admin')
ForceInvalidate(r) ==
    /\ req[r].op = "forceLogout" /\ req[r].pc = "finvalidate"
    /\ sessions' = invalidateSession(sessions, req[r].sessTok, "forced_by_admin", now)
    /\ req' = IF req[r].sessActive
              THEN [req EXCEPT ![r].pc = "fclear"]
              ELSE [req EXCEPT ![r] = Finish(r, "ok")]
    /\ UNCHANGED <<user, loginHistory, alerts, billingHistory, minted, refreshSubs,
                   now, sweep, otherVars>>

\* lines 193-203: user.updateMany where id and currentSessionToken match
ForceClear(r) ==
    /\ req[r].op = "forceLogout" /\ req[r].pc = "fclear"
    /\ user' = [user EXCEPT ![req[r].uid].currentSessionToken =
                    IF @ = req[r].sessTok THEN NULL ELSE @]
    /\ req' = [req EXCEPT ![r] = Finish(r, "ok")]
    /\ UNCHANGED <<sessions, loginHistory, alerts, billingHistory, minted, refreshSubs,
                   now, sweep, otherVars>>

ForceLogout(r) ==
    \/ \E sid \in 1..(Len(sessions) + 1) : ForceFind(r, sid)
    \/ ForceInvalidate(r)
    \/ ForceClear(r)

\* ---------------------------------------------------------------- logout-all
\* sessionActivity.controller logoutAllUserSessionsHandler, line 101
LogoutAll(r, u) ==
    /\ CanStart(r)
    /\ sessions' = invalidateAllUserSessions(sessions, u, "forced_by_admin", now)
    /\ req' = [req EXCEPT ![r] = [IdleReq EXCEPT !.op = "logoutAll", !.uid = u,
                                     !.at = now, !.peers = InFlight,
                                     !.pc = "done", !.result = "ok"]]
    /\ UNCHANGED <<user, loginHistory, alerts, billingHistory, minted, refreshSubs,
                   now, sweep, otherVars>>

\* ---------------------------------------------------------------- clock
Tick ==
    /\ now < MaxTime
    /\ now' = now + 1
    /\ UNCHANGED <<user, sessions, loginHistory, alerts, billingHistory, minted,
                   refreshSubs, req, sweep, otherVars>>

\* ---------------------------------------------------------------- sweeper
RECURSIVE SeqOf(_)
\* the rows a findMany returns, as a list
SeqOf(S) == IF S = {} THEN <<>>
            ELSE LET x == CHOOSE y \in S : TRUE IN <<x>> \o SeqOf(S \ {x})

\* where the sweep goes on once the user at the head of a list is done with
SweepAfter(billing, trial) ==
    IF billing # <<>> THEN "updBilling" ELSE IF trial # <<>> THEN "updTrial" ELSE "idle"

\* the first query without its isBillingActive and status conditions
SweepFindBillingByDate ==
    /\ sweep.pc = "idle"
    /\ sweep' = [pc |-> "findTrial", at |-> now, trial |-> <<>>,
                 billing |-> SeqOf({u \in Users : /\ user[u].billingCycleEndDate # NULL
                                                  /\ user[u].billingCycleEndDate < now})]
    /\ UNCHANGED <<user, sessions, loginHistory, alerts, billingHistory, minted,
                   refreshSubs, now, req, otherVars>>

\* billing.service.ts checkAndDisableExpiredAccounts, lines 320-334
SweepFindBilling ==
    /\ sweep.pc = "idle"
    /\ sweep' = [pc |-> "findTrial", at |-> now, trial |-> <<>>,
                 billing |-> SeqOf({u \in Users : /\ user[u].isBillingActive
                                                  /\ user[u].billingCycleEndDate # NULL
                                                  /\ user[u].billingCycleEndDate < now
                                                  /\ user[u].status # "DISABLED"})]
    /\ UNCHANGED <<user, sessions, loginHistory, alerts, billingHistory, minted,
                   refreshSubs, now, req, otherVars>>

\* lines 337-347
SweepFindTrial ==
    /\ sweep.pc = "findTrial"
    /\ LET tr == SeqOf({u \in Users : /\ user[u].isTrialActive
                                      /\ user[u].trialEndDate # NULL
                                      /\ user[u].trialEndDate < sweep.at
                                      /\ user[u].status # "DISABLED"})
       IN sweep' = [sweep EXCEPT !.trial = tr, !.pc = SweepAfter(sweep.billing, tr)]
    /\ UNCHANGED <<user, sessions, loginHistory, alerts, billingHistory, minted,
                   refreshSubs, now, req, otherVars>>

\* lines 351-358
SweepUpdateBilling ==
    /\ sweep.pc = "updBilling"
    /\ user' = [user EXCEPT ![Head(sweep.billing)].status = "DISABLED",
                            ![Head(sweep.billing)].isBillingActive = FALSE]
    /\ sweep' = [sweep EXCEPT !.pc = "histBilling"]
    /\ UNCHANGED <<sessions, loginHistory, alerts, billingHistory, minted,
                   refreshSubs, now, req, otherVars>>

\* lines 360-371
SweepHistoryBilling ==
    /\ sweep.pc = "histBilling"
    /\ billingHistory' = [billingHistory EXCEPT
                              ![Head(sweep.billing)]["AUTO_DISABLED"] = @ + 1]
    /\ sweep' = [sweep EXCEPT !.billing = Tail(@),
                              !.pc = SweepAfter(Tail(sweep.billing), sweep.trial)]
    /\ UNCHANGED <<user, sessions, loginHistory, alerts, minted, refreshSubs, now, req, otherVars>>

\* the update of an expired trial user without isTrialActive: false
SweepUpdateTrialKeepingFlag ==
    /\ sweep.pc = "updTrial"
    /\ user' = [user EXCEPT ![Head(sweep.trial)].status = "DISABLED"]
    /\ sweep' = [sweep EXCEPT !.pc = "histTrial"]
    /\ UNCHANGED <<sessions, loginHistory, alerts, billingHistory, minted,
                   refreshSubs, now, req, otherVars>>

\* lines 376-383
SweepUpdateTrial ==
    /\ sweep.pc = "updTrial"
    /\ user' = [user EXCEPT ![Head(sweep.trial)].status = "DISABLED",
                            ![Head(sweep.trial)].isTrialActive = FALSE]
    /\ sweep' = [sweep EXCEPT !.pc = "histTrial"]
    /\ UNCHANGED <<sessions, loginHistory, alerts, billingHistory, minted,
                   refreshSubs, now, req, otherVars>>

\* lines 385-396
SweepHistoryTrial ==
    /\ sweep.pc = "histTrial"
    /\ billingHistory' = [billingHistory EXCEPT
                              ![Head(sweep.trial)]["AUTO_DISABLED"] = @ + 1]
    /\ sweep' = [sweep EXCEPT !.trial = Tail(@),
                              !.pc = SweepAfter(<<>>, Tail(sweep.trial))]
    /\ UNCHANGED <<user, sessions, loginHistory, alerts, minted, refreshSubs, now, req, otherVars>>

checkAndDisableExpiredAccounts ==
    \/ SweepFindBilling
    \/ SweepFindTrial
    \/ SweepUpdateBilling
    \/ SweepHistoryBilling
    \/ SweepUpdateTrial
    \/ SweepHistoryTrial

\* ---------------------------------------------------------------- billing requests
\* the admin sends one billing request at a time, each once the one before is
\* answered
CanStartPlan(a) ==
    /\ planReq[a].op = "idle"
    /\ IF a = 1 THEN TRUE ELSE planReq[a - 1].pc = "done"

\* billing.service.ts startBillingCycle, lines 46-52: findUnique, then
\* cycleStart = startDate || new Date() and calculateCycleEndDate
StartCycleFind(a, u, cycle, startDate) ==
    /\ CanStartPlan(a)
    /\ LET cycleStart == IF startDate # NULL THEN startDate ELSE now
       IN planReq' = [planReq EXCEPT ![a] =
              [IdlePlan EXCEPT !.op = "startCycle", !.pc = "update", !.uid = u,
                               !.cycle = cycle, !.at = now,
                               !.statusRead = user[u].status,
                               !.endRead = user[u].billingCycleEndDate,
                               !.start = cycleStart,
                               !.end = calculateCycleEndDate(cycleStart, cycle)]]
    /\ UNCHANGED <<user, billingHistory, payments, sessionVars>>

\* lines 55-68: the data of startBillingCycle's user.update, on the user row
startBillingCycleUpdate(row, cycleStart, cycleEnd) ==
    [row EXCEPT !.billingCycleStartDate = cycleStart, !.billingCycleEndDate = cycleEnd,
                !.isBillingActive = TRUE, !.isTrialActive = FALSE,
                !.trialEndDate = NULL]

StartCycleUpdate(a) ==
    /\ planReq[a].op = "startCycle" /\ planReq[a].pc = "update"
    /\ user' = [user EXCEPT ![planReq[a].uid] =
                    startBillingCycleUpdate(@, planReq[a].start, planReq[a].end)]
    /\ planReq' = [planReq EXCEPT ![a].pc = "history"]
    /\ UNCHANGED <<billingHistory, payments, sessionVars>>

\* lines 70-80: billingHistory.create({action: 'CYCLE_STARTED'})
StartCycleHistory(a) ==
    /\ planReq[a].op = "startCycle" /\ planReq[a].pc = "history"
    /\ billingHistory' = [billingHistory EXCEPT ![planReq[a].uid]["CYCLE_STARTED"] = @ + 1]
    /\ planReq' = [planReq EXCEPT ![a] = DonePlan(a)]
    /\ UNCHANGED <<user, payments, sessionVars>>

startBillingCycle(a) ==
    \/ \E u \in Users, cycle \in PlanCycles, startDate \in {NULL, 1} :
           StartCycleFind(a, u, cycle, startDate)
    \/ StartCycleUpdate(a)
    \/ StartCycleHistory(a)

\* add-payment starting every cycle at the payment date
cycleStartAtPayment(endDate, paymentDate) == paymentDate

\* addPayment, lines 101-103: the new cycle starts at the end of the running
\* one, or at the payment date when there is none or it is over
cycleStartOf(endDate, paymentDate) ==
    IF endDate # NULL /\ endDate > paymentDate THEN endDate ELSE paymentDate

\* addPayment, lines 95-104: findUnique, paymentDate = new Date(), the cycle dates
AddPaymentFind(a, u, cycle) ==
    /\ CanStartPlan(a)
    /\ LET cycleStart == cycleStartOf(user[u].billingCycleEndDate, now)
       IN planReq' = [planReq EXCEPT ![a] =
              [IdlePlan EXCEPT !.op = "addPayment", !.pc = "payment", !.uid = u,
                               !.cycle = cycle, !.at = now,
                               !.statusRead = user[u].status,
                               !.endRead = user[u].billingCycleEndDate,
                               !.start = cycleStart,
                               !.end = calculateCycleEndDate(cycleStart, cycle)]]
    /\ UNCHANGED <<user, billingHistory, payments, sessionVars>>

\* lines 107-120: payment.create
AddPaymentCreate(a) ==
    /\ planReq[a].op = "addPayment" /\ planReq[a].pc = "payment"
    /\ payments' = Append(payments, [userId |-> planReq[a].uid,
                                     billingCycle |-> planReq[a].cycle,
                                     cycleStartDate |-> planReq[a].start,
                                     cycleEndDate |-> planReq[a].end,
                                     status |-> "PAID"])
    /\ planReq' = [planReq EXCEPT ![a].pc = "update", ![a].payment = Len(payments) + 1]
    /\ UNCHANGED <<user, billingHistory, sessionVars>>

\* the update of add-payment leaving isTrialActive as it is
addPaymentUpdateKeepingTrial(row, cycleStart, cycleEnd) ==
    [row EXCEPT !.billingCycleStartDate = cycleStart, !.billingCycleEndDate = cycleEnd,
                !.isBillingActive = TRUE]

\* the update of add-payment bringing the account back to ACTIVE
addPaymentUpdateReactivating(row, cycleStart, cycleEnd) ==
    [row EXCEPT !.billingCycleStartDate = cycleStart, !.billingCycleEndDate = cycleEnd,
                !.isBillingActive = TRUE, !.isTrialActive = FALSE, !.status = "ACTIVE"]

\* lines 122-133: the data of addPayment's user.update, on the user row
addPaymentUpdate(row, cycleStart, cycleEnd) ==
    [row EXCEPT !.billingCycleStartDate = cycleStart, !.billingCycleEndDate = cycleEnd,
                !.isBillingActive = TRUE, !.isTrialActive = FALSE]

AddPaymentUpdate(a) ==
    /\ planReq[a].op = "addPayment" /\ planReq[a].pc = "update"
    /\ user' = [user EXCEPT ![planReq[a].uid] =
                    addPaymentUpdate(@, planReq[a].start, planReq[a].end)]
    /\ planReq' = [planReq EXCEPT ![a].pc = "history"]
    /\ UNCHANGED <<billingHistory, payments, sessionVars>>

\* lines 135-148: billingHistory.create({action: 'PAYMENT_ADDED'})
AddPaymentHistory(a) ==
    /\ planReq[a].op = "addPayment" /\ planReq[a].pc = "history"
    /\ billingHistory' = [billingHistory EXCEPT ![planReq[a].uid]["PAYMENT_ADDED"] = @ + 1]
    /\ planReq' = [planReq EXCEPT ![a] = DonePlan(a)]
    /\ UNCHANGED <<user, payments, sessionVars>>

addPayment(a) ==
    \/ \E u \in Users, cycle \in PlanCycles : AddPaymentFind(a, u, cycle)
    \/ AddPaymentCreate(a)
    \/ AddPaymentUpdate(a)
    \/ AddPaymentHistory(a)

\* setTrialPeriod, lines 160-167: findUnique, trialEnd = now + hours
SetTrialFind(a, u, hours) ==
    /\ CanStartPlan(a)
    /\ planReq' = [planReq EXCEPT ![a] =
           [IdlePlan EXCEPT !.op = "setTrial", !.pc = "update", !.uid = u, !.at = now,
                            !.statusRead = user[u].status,
                            !.endRead = user[u].billingCycleEndDate,
                            !.start = now,
                            !.end = now + (hours * 60) \div TickMinutes]]
    /\ UNCHANGED <<user, billingHistory, payments, sessionVars>>

\* lines 169-183: the data of setTrialPeriod's user.update, on the user row
setTrialPeriodUpdate(row, trialEnd) ==
    [row EXCEPT !.trialEndDate = trialEnd, !.isTrialActive = TRUE,
                !.isBillingActive = FALSE, !.billingCycleStartDate = NULL,
                !.billingCycleEndDate = NULL]

SetTrialUpdate(a) ==
    /\ planReq[a].op = "setTrial" /\ planReq[a].pc = "update"
    /\ user' = [user EXCEPT ![planReq[a].uid] = setTrialPeriodUpdate(@, planReq[a].end)]
    /\ planReq' = [planReq EXCEPT ![a].pc = "history"]
    /\ UNCHANGED <<billingHistory, payments, sessionVars>>

\* lines 183-195: billingHistory.create({action: 'TRIAL_STARTED'})
SetTrialHistory(a) ==
    /\ planReq[a].op = "setTrial" /\ planReq[a].pc = "history"
    /\ billingHistory' = [billingHistory EXCEPT ![planReq[a].uid]["TRIAL_STARTED"] = @ + 1]
    /\ planReq' = [planReq EXCEPT ![a] = DonePlan(a)]
    /\ UNCHANGED <<user, payments, sessionVars>>

setTrialPeriod(a) ==
    \/ \E u \in Users, hours \in TrialHours : SetTrialFind(a, u, hours)
    \/ SetTrialUpdate(a)
    \/ SetTrialHistory(a)

\* ---------------------------------------------------------------- specifications
\* the session engine: any interleaving of the four request kinds
Next ==
    \/ \E r \in Reqs : Login(r)
    \/ \E r \in Reqs : Refresh(r)
    \/ \E r \in Reqs : ForceLogout(r)
    \/ \E r \in Reqs, u \in Users : LogoutAll(r, u)

Spec == Init /\ [][Next]_vars

\* logins while the clock advances and the sweeper runs
NextBilling ==
    \/ \E r \in BillingReqs : Login(r)
    \/ Tick
    \/ checkAndDisableExpiredAccounts

SpecBilling == InitBilling /\ [][NextBilling]_vars

\* logins from any place while the clock advances
NextTravel ==
    \/ \E r \in TravelReqs : LoginFrom(r, Places)
    \/ Tick

SpecTravel == Init /\ [][NextTravel]_vars

\* ---------------------------------------------------------------- travel rule
\* distances (km) and times (minutes) at and around the bounds of the rule
Distances ==
    {0, 2 * FarKm} \cup (FastKm - Margin)..(FastKm + Margin)
                  \cup (FarKm - Margin)..(FarKm + Margin)
Minutes ==
    {0, 2 * FarMinutes} \cup (FastMinutes - Margin)..(FastMinutes + Margin)
                       \cup (FarMinutes - Margin)..(FarMinutes + Margin)

\* a caller is about to ask about one distance and one time
InitRule ==
    /\ InitWith([u \in Users |-> UserRow("ACTIVE", FALSE, FALSE)], "nobody")
    /\ InitPlan
    /\ InitServices
    /\ travel \in [distance : Distances, timeDiffMinutes : Minutes,
                    asked : {FALSE}, suspicious : {FALSE}]

\* the call isSuspiciousLocationChange(...) returns
AskTravel ==
    /\ ~travel.asked
    /\ travel' = [travel EXCEPT
                      !.asked = TRUE,
                      !.suspicious = isSuspiciousLocationChange(travel.distance,
                                                                travel.timeDiffMinutes)]
    /\ UNCHANGED <<user, sessions, loginHistory, alerts, billingHistory, minted,
                   refreshSubs, now, req, sweep, payments, planReq, serviceVars>>

NextRule == AskTravel

SpecRule == InitRule /\ [][NextRule]_vars

\* ---------------------------------------------------------------- billing plans
\* a User row as prisma.user.create leaves it: the schema's defaults
NewUser ==
    [status |-> "ACTIVE", currentSessionToken |-> NULL,
     isTrialActive |-> FALSE, trialEndDate |-> NULL,
     isBillingActive |-> TRUE, billingCycleStartDate |-> NULL,
     billingCycleEndDate |-> NULL]

\* two newly created users, nobody logged in
InitPlans ==
    /\ InitOther
    /\ InitWith([u \in Users |-> NewUser], "nobody")

\* the admin's billing requests while the clock advances and the sweeper runs
NextPlans ==
    \/ \E a \in PlanReqs : startBillingCycle(a)
    \/ \E a \in PlanReqs : addPayment(a)
    \/ \E a \in PlanReqs : setTrialPeriod(a)
    \/ Tick
    \/ checkAndDisableExpiredAccounts

SpecPlans == InitPlans /\ [][NextPlans]_vars

\* ---------------------------------------------------------------- properties
cst(u) == user[u].currentSessionToken

\* every request has been answered
Quiet == InFlight = {}

\* every login so far carried request metadata, so it records a SessionActivity row
AllLoginsHadMetadata == \A r \in Reqs : req[r].op = "login" => req[r].meta

\* a successful login of user u that carried metadata
LoggedIn(r, u) ==
    /\ req[r].op = "login" /\ req[r].uid = u /\ req[r].meta
    /\ req[r].pc = "done" /\ req[r].result = "ok"

\* requests a and b overlapped in time: one started while the other was in flight
Concurrent(a, b) == a \in req[b].peers \/ b \in req[a].peers

\* the step that answers the refresh request r
RefreshAnswered(r) == req[r].pc = "rcommit" /\ req'[r].pc = "done"

\* C1: in every reachable state, under any interleaving of login, refresh,
\* forceLogout and logout-all, each user has at most one SessionActivity row with
\* isActive = true.
C1_AtMostOneActive == \A u \in Users : Cardinality(ActiveIds(u)) <= 1

\* C2: when two logins of the same user with correct credentials overlap and both
\* complete (and nothing else was requested), exactly one row of the user is active,
\* its sessionToken is the user's currentSessionToken, which is the token of the
\* later committer, and the other login's token is not the currentSessionToken.
C2_ConcurrentLoginsOneWinner ==
    \A u \in Users : \A a, b \in Reqs :
        ( /\ a < b /\ LoggedIn(a, u) /\ LoggedIn(b, u) /\ Concurrent(a, b)
          /\ \A c \in Reqs \ {a, b} : req[c].op = "idle" )
        => /\ Cardinality(ActiveIds(u)) = 1
           /\ \A i \in ActiveIds(u) : sessions[i].sessionToken = cst(u)
           /\ cst(u) = (IF req[a].tok > req[b].tok THEN req[a].tok ELSE req[b].tok)
           /\ \E q \in {a, b} : req[q].tok # cst(u)

\* C3: after every completed operation a user's currentSessionToken is null if and
\* only if the user has no SessionActivity row with isActive = true.
C3_TokenNullIffNoActive ==
    (Quiet /\ AllLoginsHadMetadata)
        => \A u \in Users : (cst(u) = NULL) <=> (ActiveIds(u) = {})

\* C4: after a completed login, refresh or forceLogout, a non-null
\* currentSessionToken is the sessionToken of the user's unique active row.
C4_TokenIsActiveRowToken ==
    (Quiet /\ AllLoginsHadMetadata /\ \A r \in Reqs : req[r].op # "logoutAll")
        => \A u \in Users :
              cst(u) # NULL
                => /\ Cardinality(ActiveIds(u)) = 1
                   /\ \A i \in ActiveIds(u) : sessions[i].sessionToken = cst(u)

\* C5: the step that answers a successful refresh leaves the user's
\* currentSessionToken equal to the newly minted access token, and no access token
\* issued before (to any request, or stored in any SessionActivity row) equals it.
C5_RefreshSetsCurrentToken ==
    [][\A r \in Reqs :
         RefreshAnswered(r)
           => /\ req'[r].result = "ok"
              /\ user'[req[r].uid].currentSessionToken = req'[r].tok
              /\ \A q \in Reqs \ {r} :
                    req[q].tok # user'[req[r].uid].currentSessionToken
              /\ \A i \in 1..Len(sessions) :
                    sessions[i].sessionToken # user'[req[r].uid].currentSessionToken
      ]_vars

\* a refresh of a logged-in user was answered: the refreshed token is current and
\* the login's token is not
C5_Witness ==
    \E r, q \in Reqs : \E u \in Users :
        /\ LoggedIn(q, u)
        /\ req[r].op = "refresh" /\ req[r].uid = u /\ req[r].result = "ok"
        /\ cst(u) = req[r].tok
        /\ req[q].tok # cst(u)

\* C6: the step that answers a successful refresh keeps the user's active
\* SessionActivity row and sets that row's sessionToken to the new access token.
C6_RefreshUpdatesActivityRow ==
    [][\A r \in Reqs :
         RefreshAnswered(r)
           => LET act == ActiveIds(req[r].uid)
              IN /\ \A i \in act : sessions'[i].isActive
                 /\ \A i \in act : sessions'[i].sessionToken = req'[r].tok
      ]_vars

\* C7: a refresh with a valid refresh token of an ACTIVE user is accepted whatever
\* the user's currentSessionToken is (null after a forced logout, or another
\* login's token), it is answered with success, and the new access token replaces
\* the currentSessionToken.
C7_RefreshIgnoresCurrentSession ==
    [][\A r \in Reqs :
         /\ ( /\ req[r].op = "idle" /\ req'[r].op = "refresh"
              /\ req'[r].uid \in Users )
            => IF user[req'[r].uid].status = "ACTIVE"
               THEN req'[r].pc = "rcommit"
               ELSE req'[r].result = "401"
         /\ RefreshAnswered(r)
            => /\ req'[r].result = "ok" /\ req'[r].tok # NULL
               /\ user'[req[r].uid].currentSessionToken = req'[r].tok
               /\ user'[req[r].uid].currentSessionToken
                      # user[req[r].uid].currentSessionToken
      ]_vars

\* an admin force-logged-out the user's active session, that request was answered,
\* and a refresh started afterwards succeeded and made its token current
C7_Witness ==
    \E f, r \in Reqs :
        /\ f < r
        /\ req[f].op = "forceLogout" /\ req[f].sessActive /\ req[f].pc = "done"
        /\ req[r].op = "refresh" /\ req[r].uid = req[f].uid /\ req[r].peers = {}
        /\ req[r].pc = "done" /\ req[r].result = "ok"
        /\ cst(req[r].uid) = req[r].tok
        /\ ActiveIds(req[r].uid) = {}

\* a login of an existing user whose row read ACTIVE, with the right password
GoodLogin(r) ==
    /\ req[r].op = "login" /\ req[r].uid \in Users
    /\ req[r].snap.status = "ACTIVE" /\ req[r].pwOk

\* C8: a login with correct credentials by an ACTIVE user whose plan is expired at
\* the instant of the login mints no token and is not answered with success.
C8_ExpiredLoginRejected ==
    \A r \in Reqs :
        (GoodLogin(r) /\ IsExpired(req[r].snap, req[r].at))
            => /\ req[r].tok = NULL
               /\ req[r].pc = "done" => req[r].result # "ok"

C10_InactiveLoginRejected ==
    [][\A r \in Reqs :
         ( /\ req[r].op = "idle" /\ req'[r].op = "login"
           /\ req'[r].uid \in Users
           /\ user[req'[r].uid].status # "ACTIVE" )
            => /\ req'[r].pc = "done" /\ req'[r].result = "401"
               /\ req'[r].tok = NULL
               /\ minted' = minted
               /\ sessions' = sessions
               /\ user' = user
      ]_vars

\* a login with the right password for the user the sweeper disabled was rejected
C10_Witness ==
    \E r \in Reqs :
        /\ req[r].op = "login" /\ req[r].uid \in Users /\ req[r].pwOk
        /\ req[r].snap.status = "DISABLED" /\ billingHistory[req[r].uid]["AUTO_DISABLED"] > 0
        /\ req[r].pc = "done" /\ req[r].result = "401" /\ req[r].tok = NULL

\* the login request r was answered with an error
LoginFailed(r) == req[r].op = "login" /\ req[r].pc = "done" /\ req[r].result # "ok"

\* login r named an email no user row has
UnknownEmailLogin(r) == LoginFailed(r) /\ req[r].uid \notin Users

\* login r named an existing user and carried a wrong password
WrongPasswordLogin(r) == LoginFailed(r) /\ req[r].uid \in Users /\ ~req[r].pwOk

\* C11: a login with an email nobody has and a login with an existing user's
\* email and a wrong password are answered alike: same HTTP status 401 and same
\* error message, so the response does not tell whether the email exists.
C11_FailuresIndistinguishable ==
    \A a \in Reqs, b \in Reqs :
        UnknownEmailLogin(a) /\ WrongPasswordLogin(b)
            => /\ req[a].result = "401" /\ req[b].result = "401"
               /\ req[a].message = req[b].message

\* both kinds of failure were answered in one run, the second for an ACTIVE user
C11_Witness ==
    \E a \in Reqs, b \in Reqs :
        /\ UnknownEmailLogin(a) /\ WrongPasswordLogin(b)
        /\ req[b].snap.status = "ACTIVE"

\* the number of SecurityAlert rows of the given type and severity
AlertCount(al, type, sev) ==
    LET rows == {a \in BagToSet(al) : a.alertType = type /\ a.severity = sev}
        RECURSIVE Sum(_)
        Sum(S) == IF S = {} THEN 0
                  ELSE LET x == CHOOSE y \in S : TRUE IN CopiesIn(x, al) + Sum(S \ {x})
    IN Sum(rows)

\* the step in which login r of an existing ACTIVE user, carrying request
\* metadata, fails its password check
WrongPasswordStep(r) ==
    /\ req[r].op = "idle" /\ req'[r].op = "login" /\ req'[r].meta
    /\ req'[r].uid \in Users /\ req'[r].snap.status = "ACTIVE" /\ ~req'[r].pwOk

\* C12: every wrong-password login of an existing ACTIVE user writes one failed
\* LoginHistory row and one FAILED_LOGIN_ATTEMPT alert, whose severity is MEDIUM
\* while the user has fewer than 5 failed attempts and HIGH from the 5th on.
C12_WrongPasswordAlerts ==
    [][\A r \in Reqs :
          WrongPasswordStep(r) =>
              LET u == req'[r].uid
                  sev == IF loginHistory'[u].fail >= FailedAlertHighAt
                         THEN "HIGH" ELSE "MEDIUM"
              IN /\ loginHistory'[u].fail = loginHistory[u].fail + 1
                 /\ AlertCount(alerts', "FAILED_LOGIN_ATTEMPT", sev)
                        = AlertCount(alerts, "FAILED_LOGIN_ATTEMPT", sev) + 1]_vars

\* the multiple-device alerts the logins of user u created, by the logins' count
MultiDeviceAlertsOf(u) ==
    Cardinality({r \in Reqs : req[r].op = "login" /\ req[r].uid = u /\ req[r].alerted = 1})

\* C13: a successful login that invalidated at least one prior active session
\* created exactly one MULTIPLE_DEVICE_LOGIN alert of severity MEDIUM for its
\* user, and one that found no active session created none; the table holds no
\* other MULTIPLE_DEVICE_LOGIN row.
C13_OneMultiDeviceAlert ==
    /\ \A r \in Reqs, u \in Users :
           LoggedIn(r, u) =>
               /\ req[r].invalidated >= 1 => req[r].alerted = 1
               /\ req[r].found = 0 => req[r].alerted = 0
    /\ \A r \in Reqs : req[r].alerted <= 1
    /\ \A u \in Users :
           CopiesIn([alertType |-> "MULTIPLE_DEVICE_LOGIN", severity |-> "MEDIUM",
                     userId |-> u], alerts) = MultiDeviceAlertsOf(u)
    /\ \A a \in BagToSet(alerts) :
           a.alertType = "MULTIPLE_DEVICE_LOGIN" => a.severity = "MEDIUM" /\ a.userId \in Users

\* one user logged in twice: the first login found no active session and raised
\* no alert, the second invalidated the first's session and raised one
C13_Witness ==
    \E a \in Reqs, b \in Reqs, u \in Users :
        /\ LoggedIn(a, u) /\ req[a].found = 0 /\ req[a].alerted = 0
        /\ LoggedIn(b, u) /\ req[b].invalidated >= 1 /\ req[b].alerted = 1
        /\ AlertCount(alerts, "MULTIPLE_DEVICE_LOGIN", "MEDIUM") = 1

\* minutes between the previous session's login and the start of login r
ElapsedMinutes(r) == (req[r].at - req[r].previousAt) * TickMinutes

\* login r succeeded after an impossibly fast move from the previous session's place
SuspiciousLogin(r) ==
    /\ \E u \in Users : LoggedIn(r, u)
    /\ req[r].found > 0 /\ req[r].previousLocation \in Places
    /\ isSuspiciousLocationChange(calculateDistance(req[r].previousLocation, req[r].place),
                                  ElapsedMinutes(r))

\* C14: the SUSPICIOUS_LOCATION alerts of severity HIGH are exactly one per
\* successful login whose invalidated previous session has a location from which
\* the new login's location is suspicious travel, and there are no others.
C14_SuspiciousLocationAlert ==
    Quiet => AlertCount(alerts, "SUSPICIOUS_LOCATION", "HIGH")
                = Cardinality({r \in Reqs : SuspiciousLogin(r)})

\* C15 as stated: the travel rule answers true exactly when the distance is at
\* least 500 km in under 60 minutes or at least 2000 km in under 180 minutes.
C15_SuspiciousFromBound ==
    travel.asked =>
        (travel.suspicious <=>
            \/ travel.distance >= 500 /\ travel.timeDiffMinutes < 60
            \/ travel.distance >= 2000 /\ travel.timeDiffMinutes < 180)

\* C15, amended: the travel rule answers true exactly when the distance is more
\* than 500 km in under 60 minutes or more than 2000 km in under 180 minutes; it
\* answers false for 500 km in 60 minutes and true for 501 km in 59 minutes.
C15_SuspiciousBeyondBound ==
    travel.asked =>
        /\ travel.suspicious <=>
               \/ travel.distance > 500 /\ travel.timeDiffMinutes < 60
               \/ travel.distance > 2000 /\ travel.timeDiffMinutes < 180
        /\ travel.distance = 500 /\ travel.timeDiffMinutes = 60 => ~travel.suspicious
        /\ travel.distance = 501 /\ travel.timeDiffMinutes = 59 => travel.suspicious

\* the rule was asked about exactly 500 km in 59 minutes and answered false
C15_Witness ==
    /\ travel.asked /\ travel.distance = 500 /\ travel.timeDiffMinutes = 59
    /\ ~travel.suspicious

\* the step that answers a logout-all of whatever user, or a forceLogout of a
\* session that was active when forceLogout read it
AdminLogoutAnswered(r) ==
    /\ req[r].pc # "done" /\ req'[r].pc = "done" /\ req'[r].result = "ok"
    /\ \/ req'[r].op = "logoutAll"
       \/ req'[r].op = "forceLogout" /\ req'[r].sessActive

\* C16: when a logout-all for a user, or a forceLogout of one of the user's
\* active sessions, is answered, the user's currentSessionToken is null.
C16_AdminLogoutClearsToken ==
    [][\A r \in Reqs : AdminLogoutAnswered(r) => user'[req'[r].uid].currentSessionToken = NULL]_vars

\* C17: a SessionActivity row with isActive = false is still there and still
\* inactive after every step: no login, refresh, forceLogout or logout-all
\* brings an invalidated row back to isActive = true.
C17_NeverReactivated ==
    [][\A i \in 1..Len(sessions) :
          ~sessions[i].isActive => i <= Len(sessions') /\ ~sessions'[i].isActive]_vars

\* a user's row invalidated by a new login stayed inactive while the same
\* user's later login holds an active row
C17_Witness ==
    \E i \in 1..Len(sessions), j \in 1..Len(sessions) :
        /\ i < j /\ sessions[i].userId = sessions[j].userId
        /\ ~sessions[i].isActive /\ sessions[i].logoutReason = "new_login"
        /\ sessions[j].isActive
        /\ \E r \in Reqs : LoggedIn(r, sessions[j].userId) /\ req[r].tok = sessions[j].sessionToken

\* C18: in every state reached from newly created users by start-cycle,
\* add-payment, set-trial and sweeps, no user has isTrialActive and
\* isBillingActive both true.
C18_TrialXorBilling ==
    \A u \in Users : ~(user[u].isTrialActive /\ user[u].isBillingActive)

\* a user whose trial was started and swept at its end has been paid for since:
\* the plan moved from trial to billing
C18_Witness ==
    \E u \in Users :
        /\ billingHistory[u]["TRIAL_STARTED"] > 0 /\ billingHistory[u]["AUTO_DISABLED"] > 0
        /\ billingHistory[u]["PAYMENT_ADDED"] > 0
        /\ user[u].isBillingActive /\ ~user[u].isTrialActive

\* the step in which the add-payment request a writes the user row
PaymentApplied(a) ==
    /\ planReq[a].op = "addPayment" /\ planReq[a].pc = "update"
    /\ planReq'[a].pc = "history"

\* whole days of the two cycles that are not counted in calendar months
FixedDays(cycle) == IF cycle = "DAILY" THEN 1 ELSE 7

\* C19: when add-payment writes the user row, the Payment row it created starts
\* at the later of its payment date and the billingCycleEndDate it read, ends one
\* cycle after that start, and the user's billingCycleStartDate and
\* billingCycleEndDate are these two dates, with isBillingActive true and
\* isTrialActive false.
C19_PaymentStacks ==
    [][\A a \in PlanReqs :
          PaymentApplied(a) =>
              LET p == payments[planReq[a].payment]
                  u == user'[planReq[a].uid]
                  read == planReq[a].endRead
                  later == IF read # NULL /\ read > planReq[a].at
                           THEN read ELSE planReq[a].at
              IN /\ read = user[planReq[a].uid].billingCycleEndDate
                 /\ p.userId = planReq[a].uid /\ p.billingCycle = planReq[a].cycle
                 /\ p.cycleStartDate = later
                 /\ p.cycleEndDate = calculateCycleEndDate(later, p.billingCycle)
                 /\ p.cycleEndDate > p.cycleStartDate
                 /\ p.billingCycle \in {"DAILY", "WEEKLY"}
                       => p.cycleEndDate = later + FixedDays(p.billingCycle)
                 /\ u.billingCycleStartDate = p.cycleStartDate
                 /\ u.billingCycleEndDate = p.cycleEndDate
                 /\ u.isBillingActive /\ ~u.isTrialActive]_vars

\* a second payment was stacked on a running cycle: its Payment row starts where
\* the first one ends, after the payment date, and the user row carries its dates
C19_Witness ==
    \E i \in 1..Len(payments), j \in 1..Len(payments), a \in PlanReqs :
        /\ i < j /\ payments[i].userId = payments[j].userId
        /\ payments[j].cycleStartDate = payments[i].cycleEndDate
        /\ payments[j].cycleStartDate > now
        /\ planReq[a].op = "addPayment" /\ planReq[a].pc = "history"
        /\ planReq[a].payment = j
        /\ user[payments[j].userId].billingCycleStartDate = payments[j].cycleStartDate
        /\ user[payments[j].userId].billingCycleEndDate = payments[j].cycleEndDate

\* C20: add-payment leaves the user's status as it is: when it writes the row of
\* a user the sweeper set to DISABLED, isBillingActive becomes true, the status
\* stays DISABLED and the login gate still rejects the user.
C20_PaymentKeepsStatus ==
    [][\A a \in PlanReqs :
          PaymentApplied(a) =>
              LET u == planReq[a].uid
              IN /\ user'[u].status = user[u].status
                 /\ user'[u].isBillingActive
                 /\ user[u].status = "DISABLED"
                       => user'[u].status = "DISABLED" /\ StatusGate(u)']_vars

\* a payment was added for a user the sweeper had disabled: the user is paid up
\* and still DISABLED
C20_Witness ==
    \E u \in Users :
        /\ billingHistory[u]["AUTO_DISABLED"] > 0 /\ user[u].status = "DISABLED"
        /\ \E i \in 1..Len(payments) :
               /\ payments[i].userId = u
               /\ user[u].billingCycleEndDate = payments[i].cycleEndDate
        /\ user[u].isBillingActive /\ user[u].billingCycleEndDate > now

\* ---------------------------------------------------------------- billing status
\* billing.service.ts getUserBillingStatus: the outcome it reports for the user
\* row u at instant t ("expired" is isExpired, "no plan" is the message
\* 'No billing cycle set', "active" is the message with the remaining days)
getUserBillingStatus(u, t) ==
    IF u.isTrialActive /\ u.trialEndDate # NULL
    THEN IF u.trialEndDate < t THEN "expired" ELSE "active"
    ELSE IF u.isBillingActive /\ u.billingCycleEndDate # NULL
         THEN IF u.billingCycleEndDate < t THEN "expired" ELSE "active"
         ELSE "no plan"

\* an end date of the row u lies before the instant t
EndInPast(u, t) ==
    \/ u.trialEndDate # NULL /\ u.trialEndDate < t
    \/ u.billingCycleEndDate # NULL /\ u.billingCycleEndDate < t

\* the plan of the row u is running at the instant t
PlanRunning(u, t) ==
    \/ u.isTrialActive /\ u.trialEndDate # NULL /\ u.trialEndDate >= t
    \/ u.isBillingActive /\ u.billingCycleEndDate # NULL /\ u.billingCycleEndDate >= t

\* C21: status(user) is active when the trial is active and trialEnd >= now or
\* billing is active and cycleEnd >= now; otherwise expired when trialEndDate or
\* billingCycleEndDate is in the past, also after the sweeper cleared the active
\* flag; otherwise no plan.
C21_StatusOutcome ==
    \A u \in Users :
        getUserBillingStatus(user[u], now) =
            IF PlanRunning(user[u], now) THEN "active"
            ELSE IF EndInPast(user[u], now) THEN "expired"
            ELSE "no plan"

\* ---------------------------------------------------------------- cycle end dates
\* the variables of the server's tables, requests and clock
coreVars == <<user, sessions, loginHistory, alerts, billingHistory, minted,
              refreshSubs, now, req, sweep, travel, payments, planReq>>

\* the service variables a call of calculateCycleEndDate leaves alone
calcOthers == <<atStart, bundleVars, alertFlags, poll, lateVars>>

\* the last start date a caller asks about: 30 January 2024 to 1 March 2024
MaxStartDay == 32
StartDates == 1..MaxStartDay

\* a caller is about to ask for the end of one cycle from one start date
InitCycle ==
    /\ InitWith([u \in Users |-> NewUser], "nobody")
    /\ InitPlan
    /\ travel = [distance |-> 0, timeDiffMinutes |-> 0, asked |-> FALSE,
                 suspicious |-> FALSE]
    /\ calc \in [startDate : StartDates, cycle : BillingCycles,
                 asked : {FALSE}, endDate : {NULL}]
    /\ InitAtStart
    /\ InitDat /\ InitFlags /\ InitPoll /\ InitLate

\* the call calculateCycleEndDate(startDate, cycle) returns
AskCycleEnd ==
    /\ ~calc.asked
    /\ calc' = [calc EXCEPT !.asked = TRUE,
                            !.endDate = calculateCycleEndDate(calc.startDate, calc.cycle)]
    /\ UNCHANGED <<coreVars, calcOthers>>

NextCycle == AskCycleEnd

SpecCycle == InitCycle /\ [][NextCycle]_vars

\* the calendar months a cycle adds
MonthsOf(cycle) ==
    CASE cycle = "MONTHLY" -> 1
      [] cycle = "THREE_MONTHS" -> 3
      [] cycle = "HALF_YEAR" -> 6
      [] cycle = "YEARLY" -> 12

\* the date k calendar months after the date n: the same day of the month, or
\* the last day of the target month where that month is shorter
ClampedMonthsLater(n, k) ==
    LET c == Civil(n)
        first == Civil(DateOf(c.year, c.month + k, 1))
        last == DaysInMonth(first.year, first.month)
    IN DateOf(first.year, first.month, IF c.day <= last THEN c.day ELSE last)

\* C22: the end date of a MONTHLY, THREE_MONTHS, HALF_YEAR or YEARLY cycle is
\* the start date plus 1, 3, 6 or 12 calendar months, keeping the day of the
\* month when the target month has it and clamping to the last day of the target
\* month otherwise (31 January + 1 month is 28/29 February, never a March date).
C22_CycleEndClamped ==
    (calc.asked /\ calc.cycle \in {"MONTHLY", "THREE_MONTHS", "HALF_YEAR", "YEARLY"})
        => calc.endDate = ClampedMonthsLater(calc.startDate, MonthsOf(calc.cycle))

\* ---------------------------------------------------------------- sweeps alone
\* the statuses an operator or the sweeper leaves on a User row
RowStatuses == {"ACTIVE", "SUSPENDED", "DISABLED"}

\* the rows the billing service leaves behind: a new user, a trial or a billing
\* cycle ending at one of the instants up to PlanEnd, under any status
SweepRows ==
    {NewUser}
      \cup {[setTrialPeriodUpdate(NewUser, e) EXCEPT !.status = st] :
                e \in 1..PlanEnd, st \in RowStatuses}
      \cup {[startBillingCycleUpdate(NewUser, 1, e) EXCEPT !.status = st] :
                e \in 1..PlanEnd, st \in RowStatuses}

\* two users with any of these rows at any instant; nothing but the sweeper runs,
\* and atStart keeps the tables its runs start from
InitSweep ==
    /\ \E rows \in [Users -> SweepRows], t \in 1..MaxTime : InitAt(rows, "nobody", t)
    /\ travel = [distance |-> 0, timeDiffMinutes |-> 0, asked |-> FALSE,
                 suspicious |-> FALSE]
    /\ InitPlan
    /\ InitCalc
    /\ InitDat /\ InitFlags /\ InitPoll /\ InitLate
    /\ atStart = [user |-> user, billingHistory |-> billingHistory]

\* runs of the sweep, one directly after the other, with no other write
NextSweep == checkAndDisableExpiredAccounts

SpecSweep == InitSweep /\ [][NextSweep]_vars

\* the users the sweep's first / second query selects from the rows at instant t
ExpiredBilling(rows, t) ==
    {u \in Users : /\ rows[u].status # "DISABLED" /\ rows[u].isBillingActive
                   /\ rows[u].billingCycleEndDate # NULL
                   /\ rows[u].billingCycleEndDate < t}
ExpiredTrial(rows, t) ==
    {u \in Users : /\ rows[u].status # "DISABLED" /\ rows[u].isTrialActive
                   /\ rows[u].trialEndDate # NULL /\ rows[u].trialEndDate < t}

\* a run of the sweep has completed and none is under way
SweepCompleted == sweep.pc = "idle" /\ sweep.at # NULL

\* C23: after a sweep has completed with no concurrent writes, no user with
\* status other than DISABLED has (isBillingActive and billingCycleEndDate < now)
\* or (isTrialActive and trialEndDate < now); every user the sweep selected has
\* status DISABLED, the matching active flag cleared and one new AUTO_DISABLED
\* BillingHistory row; all other users are unchanged.
C23_SweepDisablesExpired ==
    SweepCompleted =>
        LET b == ExpiredBilling(atStart.user, sweep.at)
            t == ExpiredTrial(atStart.user, sweep.at)
        IN /\ ExpiredBilling(user, sweep.at) = {} /\ ExpiredTrial(user, sweep.at) = {}
           /\ \A u \in b :
                 user[u] = [atStart.user[u] EXCEPT !.status = "DISABLED",
                                                   !.isBillingActive = FALSE]
           /\ \A u \in t :
                 user[u] = [atStart.user[u] EXCEPT !.status = "DISABLED",
                                                   !.isTrialActive = FALSE]
           /\ \A u \in b \cup t :
                 billingHistory[u] =
                     [atStart.billingHistory[u] EXCEPT !["AUTO_DISABLED"] = @ + 1]
           /\ \A u \in Users \ (b \cup t) :
                 user[u] = atStart.user[u] /\ billingHistory[u] = atStart.billingHistory[u]

\* a sweep that selected a user by its cycle and a user by its trial has completed
C23_Witness ==
    /\ SweepCompleted
    /\ ExpiredBilling(atStart.user, sweep.at) # {}
    /\ ExpiredTrial(atStart.user, sweep.at) # {}
    /\ \E u \in Users : user[u].status = "DISABLED" /\ atStart.user[u].status # "DISABLED"

\* the User rows and BillingHistory counts one sweep at instant t makes of the
\* tables rows and hist
Swept(rows, t) ==
    [u \in Users |->
        IF u \in ExpiredBilling(rows, t)
        THEN [rows[u] EXCEPT !.status = "DISABLED", !.isBillingActive = FALSE]
        ELSE IF u \in ExpiredTrial(rows, t)
             THEN [rows[u] EXCEPT !.status = "DISABLED", !.isTrialActive = FALSE]
             ELSE rows[u]]
SweptHistory(rows, hist, t) ==
    [u \in Users |->
        IF u \in ExpiredBilling(rows, t) \cup ExpiredTrial(rows, t)
        THEN [hist[u] EXCEPT !["AUTO_DISABLED"] = @ + 1]
        ELSE hist[u]]

\* the tables are what one sweep makes of the tables the run of sweeps found
AfterOneSweep ==
    /\ user = Swept(atStart.user, now)
    /\ billingHistory = SweptHistory(atStart.user, atStart.billingHistory, now)

\* C24: the expiration sweep is idempotent: a second run directly after a first
\* run, with no writes in between, selects nobody, changes no user and appends
\* no BillingHistory row.
C24_SweepIdempotent ==
    [][AfterOneSweep =>
          /\ user' = user /\ billingHistory' = billingHistory
          /\ sweep'.billing = <<>> /\ sweep'.trial = <<>>]_vars

\* a second run is under way after a first run that disabled a user
C24_Witness ==
    /\ AfterOneSweep
    /\ sweep.pc = "findTrial"
    /\ \E u \in Users : /\ user[u].status = "DISABLED"
                        /\ atStart.user[u].status # "DISABLED"
                        /\ billingHistory[u]["AUTO_DISABLED"] = 1

\* ---------------------------------------------------------------- shared session
\* the service variables a shared-session request leaves alone
bundleOthers == <<calc, atStart, alertFlags, poll, lateVars>>

SHARED_SESSION_NAME == "Shared DAT Session"

\* completed uploads per run
MaxUploads == 1

\* a DatSession row as datSession.create leaves it (part_003 lines 47-55)
PendingRow(name) ==
    [name |-> name, status |-> "PENDING", bundleKey |-> NULL, bundleVersion |-> 0]

\* the ids of the DatSession rows that findFirst({ name }) can return
RowsNamed(name) == {i \in 1..Len(datSessions) : datSessions[i].name = name}

\* the table is empty or holds one session of another name
InitBundle ==
    /\ InitWith([u \in Users |-> NewUser], "nobody")
    /\ InitPlan
    /\ travel = [distance |-> 0, timeDiffMinutes |-> 0, asked |-> FALSE,
                 suspicious |-> FALSE]
    /\ InitCalc /\ InitAtStart /\ InitFlags /\ InitPoll /\ InitLate
    /\ datSessions \in {<<>>, <<PendingRow("Other session")>>}
    /\ domains = 0
    /\ bundleReq = [r \in BundleReqs |-> IdleBundleReq]

\* a request slot is taken in order
CanStartBundle(r) ==
    /\ bundleReq[r].op = "idle"
    /\ IF r = 1 THEN TRUE ELSE bundleReq[r - 1].op # "idle"

BundleAnswer(r, res, row) ==
    [bundleReq[r] EXCEPT !.pc = "done", !.result = res, !.row = row]

\* getOrCreateSharedSession, lines 13-21: findFirst by name; an existing row is
\* returned at once (line 66)
GetFind(r) ==
    /\ CanStartBundle(r)
    /\ bundleReq' =
          [bundleReq EXCEPT ![r] =
              IF RowsNamed(SHARED_SESSION_NAME) # {}
              THEN [BundleAnswer(r, "ok", CHOOSE i \in RowsNamed(SHARED_SESSION_NAME) :
                                              \A j \in RowsNamed(SHARED_SESSION_NAME) : i <= j)
                       EXCEPT !.op = "get"]
              ELSE [@ EXCEPT !.op = "get", !.pc = "domain"]]
    /\ UNCHANGED <<coreVars, bundleOthers, datSessions, domains>>

\* lines 28-30: domain.findFirst
GetDomain(r) ==
    /\ bundleReq[r].op = "get" /\ bundleReq[r].pc = "domain"
    /\ bundleReq' = [bundleReq EXCEPT
                        ![r].pc = IF domains = 0 THEN "createDomain" ELSE "proxy"]
    /\ UNCHANGED <<coreVars, bundleOthers, datSessions, domains>>

\* lines 31-39: domain.create
GetCreateDomain(r) ==
    /\ bundleReq[r].op = "get" /\ bundleReq[r].pc = "createDomain"
    /\ domains' = domains + 1
    /\ bundleReq' = [bundleReq EXCEPT ![r].pc = "proxy"]
    /\ UNCHANGED <<coreVars, bundleOthers, datSessions>>

\* lines 42-44: proxy.findFirst
GetProxy(r) ==
    /\ bundleReq[r].op = "get" /\ bundleReq[r].pc = "proxy"
    /\ bundleReq' = [bundleReq EXCEPT ![r].pc = "create"]
    /\ UNCHANGED <<coreVars, bundleOthers, datSessions, domains>>

\* lines 47-63: datSession.create; the unique index DatSession_name_key
\* (part_002 line 115) rejects a second row of the same name and the call throws
GetCreate(r) ==
    /\ bundleReq[r].op = "get" /\ bundleReq[r].pc = "create"
    /\ IF RowsNamed(SHARED_SESSION_NAME) # {}
       THEN /\ bundleReq' = [bundleReq EXCEPT ![r] = BundleAnswer(r, "error", 0)]
            /\ UNCHANGED datSessions
       ELSE /\ datSessions' = Append(datSessions, PendingRow(SHARED_SESSION_NAME))
            /\ bundleReq' = [bundleReq EXCEPT
                                ![r] = BundleAnswer(r, "ok", Len(datSessions) + 1)]
    /\ UNCHANGED <<coreVars, bundleOthers, domains>>

getOrCreateSharedSession(r) ==
    \/ GetFind(r)
    \/ GetDomain(r)
    \/ GetCreateDomain(r)
    \/ GetProxy(r)
    \/ GetCreate(r)

\* markSharedSessionAsReady, lines 90-100: findUnique by id, 404 without a row,
\* 400 for a row of another name
MarkFind(r, id) ==
    /\ CanStartBundle(r)
    /\ bundleReq' =
          [bundleReq EXCEPT ![r] =
              IF id \notin 1..Len(datSessions)
              THEN [BundleAnswer(r, "404", 0) EXCEPT !.op = "markReady"]
              ELSE IF datSessions[id].name # SHARED_SESSION_NAME
                   THEN [BundleAnswer(r, "400", 0) EXCEPT !.op = "markReady"]
                   ELSE [@ EXCEPT !.op = "markReady", !.pc = "update", !.id = id]]
    /\ UNCHANGED <<coreVars, bundleOthers, datSessions, domains>>

\* lines 103-110: datSession.update with status READY
MarkUpdate(r) ==
    /\ bundleReq[r].op = "markReady" /\ bundleReq[r].pc = "update"
    /\ datSessions' = [datSessions EXCEPT ![bundleReq[r].id].status = "READY"]
    /\ bundleReq' = [bundleReq EXCEPT ![r] = BundleAnswer(r, "ok", bundleReq[r].id)]
    /\ UNCHANGED <<coreVars, bundleOthers, domains>>

markSharedSessionAsReady(r) ==
    \/ \E id \in 1..(MaxBundleReq + 1) : MarkFind(r, id)
    \/ MarkUpdate(r)

\* complete-upload for the key issued to request r: the row becomes READY with
\* that key and the next bundleVersion, in one step
completeUpload(r, id) ==
    /\ CanStartBundle(r)
    /\ id \in 1..Len(datSessions)
    /\ datSessions[id].bundleVersion < MaxUploads
    /\ datSessions' = [datSessions EXCEPT ![id].status = "READY",
                                          ![id].bundleKey = r,
                                          ![id].bundleVersion = @ + 1]
    /\ bundleReq' = [bundleReq EXCEPT
                        ![r] = [BundleAnswer(r, "ok", id) EXCEPT !.op = "completeUpload"]]
    /\ UNCHANGED <<coreVars, bundleOthers, domains>>

NextBundle ==
    \/ \E r \in BundleReqs : getOrCreateSharedSession(r)
    \/ \E r \in BundleReqs : markSharedSessionAsReady(r)
    \/ \E r \in BundleReqs, id \in 1..(MaxBundleReq + 1) : completeUpload(r, id)

SpecBundle == InitBundle /\ [][NextBundle]_vars

\* C25: in every reachable state a shared bundle with status READY has a
\* non-null bundleKey, also after mark-ready on a bundle that never had an
\* upload completed.
C25_ReadyHasBundleKey ==
    \A i \in RowsNamed(SHARED_SESSION_NAME) :
        datSessions[i].status = "READY" => datSessions[i].bundleKey # NULL

\* a read of the shared session has been answered
BundleRead(r) == bundleReq[r].op = "get" /\ bundleReq[r].pc = "done"

\* C26: at most one shared bundle row exists, and every read through
\* getOrCreateSharedSession returns it, creating it with status PENDING when none
\* exists; two such reads running concurrently on an empty table both return the
\* same single row and neither fails.
C26_SingleSharedRow ==
    /\ Cardinality(RowsNamed(SHARED_SESSION_NAME)) <= 1
    /\ \A r \in BundleReqs :
          BundleRead(r) => /\ bundleReq[r].result = "ok"
                           /\ RowsNamed(SHARED_SESSION_NAME) = {bundleReq[r].row}

\* ---------------------------------------------------------------- alert flags
\* SecurityAlert rows per run
MaxAlerts == 4

\* the service variables an alert request leaves alone
alertOthers == <<calc, atStart, bundleVars, poll, lateVars>>

\* nobody logged in, no SecurityAlert row yet
InitAlerts ==
    /\ InitWith([u \in Users |-> NewUser], "nobody")
    /\ InitPlan
    /\ travel = [distance |-> 0, timeDiffMinutes |-> 0, asked |-> FALSE,
                 suspicious |-> FALSE]
    /\ InitCalc /\ InitAtStart /\ InitDat /\ InitFlags /\ InitPoll /\ InitLate

\* the flags of a new SecurityAlert row: the schema's defaults
NewFlags == [isRead |-> FALSE, isDismissed |-> FALSE]

\* createSecurityAlert for a failed login: one more row, unread and not dismissed
RaiseAlert ==
    /\ Len(alertFlags) < MaxAlerts
    /\ alerts' = createFailedLoginAlert(alerts, 1)
    /\ alertFlags' = Append(alertFlags, NewFlags)
    /\ UNCHANGED <<user, sessions, loginHistory, billingHistory, minted, refreshSubs,
                   now, req, sweep, travel, payments, planReq, alertOthers>>

\* the data of dismissAlert's update with isRead: false added
dismissUpdateUnreading(row) == [row EXCEPT !.isDismissed = TRUE, !.isRead = FALSE]

\* the data of the updates of markAlertAsRead / markAllAlertsAsRead and of dismissAlert
markReadUpdate(row) == [row EXCEPT !.isRead = TRUE]
dismissUpdate(row) == [row EXCEPT !.isDismissed = TRUE]

\* markAlertAsRead(alertId) for an existing alert
markAlertAsRead(id) ==
    /\ id \in 1..Len(alertFlags)
    /\ alertFlags' = [alertFlags EXCEPT ![id] = markReadUpdate(@)]
    /\ UNCHANGED <<coreVars, alertOthers>>

\* markAllAlertsAsRead: updateMany where isRead is false
markAllAlertsAsRead ==
    /\ alertFlags' = [i \in 1..Len(alertFlags) |->
                         IF ~alertFlags[i].isRead THEN markReadUpdate(alertFlags[i])
                         ELSE alertFlags[i]]
    /\ UNCHANGED <<coreVars, alertOthers>>

\* dismissAlert(alertId) for an existing alert
dismissAlert(id) ==
    /\ id \in 1..Len(alertFlags)
    /\ alertFlags' = [alertFlags EXCEPT ![id] = dismissUpdate(@)]
    /\ UNCHANGED <<coreVars, alertOthers>>

NextAlerts ==
    \/ RaiseAlert
    \/ \E id \in 1..MaxAlerts : markAlertAsRead(id)
    \/ markAllAlertsAsRead
    \/ \E id \in 1..MaxAlerts : dismissAlert(id)

SpecAlerts == InitAlerts /\ [][NextAlerts]_vars

\* C27: the isRead and isDismissed flags of every SecurityAlert are monotonic:
\* no mark-read, mark-all-read or dismiss step changes either flag from true to
\* false.
C27_FlagsMonotonic ==
    [][/\ Len(alertFlags') >= Len(alertFlags)
       /\ \A i \in 1..Len(alertFlags) :
             /\ alertFlags[i].isRead => alertFlags'[i].isRead
             /\ alertFlags[i].isDismissed => alertFlags'[i].isDismissed]_vars

\* one alert was read and then dismissed, another dismissed and then read by
\* mark-all-read, and a later alert is still unread
C27_Witness ==
    /\ Len(alertFlags) >= 3
    /\ alertFlags[1].isRead /\ alertFlags[1].isDismissed
    /\ alertFlags[2].isRead /\ alertFlags[2].isDismissed
    /\ ~alertFlags[3].isRead /\ ~alertFlags[3].isDismissed

\* ---------------------------------------------------------------- session poll
MAX_FAILURES == 3

\* validations per run, and timer callbacks that may wait for their result at once
MaxPolls == 5
MaxInFlight == 2

\* the service variables the client's poll leaves alone
pollOthers == <<calc, atStart, bundleVars, alertFlags, lateVars>>

\* what the main process meets when it validates: no token, the answers of
\* GET /auth/session-status (valid, not valid, 401 for a session invalidated by
\* another login, 401 for an expired token with the refresh and retry succeeding
\* or not, no answer), or a failing IPC call
Outcomes == {"no_token", "valid", "not_valid", "invalidated", "expired_refreshed",
             "expired", "network", "throws"}

\* main.js session:validate: the result handed to the renderer
validateSession(outcome) ==
    CASE outcome = "no_token" -> [valid |-> FALSE, reason |-> "No active session"]
      [] outcome = "valid" -> [valid |-> TRUE, reason |-> ""]
      [] outcome = "not_valid" -> [valid |-> FALSE, reason |-> "Session expired"]
      [] outcome = "invalidated" ->
             [valid |-> FALSE, reason |-> "logged_out_from_another_device"]
      [] outcome = "expired_refreshed" -> [valid |-> TRUE, reason |-> ""]
      [] outcome = "expired" -> [valid |-> FALSE, reason |-> "token_expired"]
      [] outcome = "network" -> [valid |-> TRUE, reason |-> ""]

\* the logout test without the immediate logout of lines 426-443
mustLogoutAtMaxOnly(result, failures) == failures >= MAX_FAILURES

\* part_008 lines 426 and 447: the callback logs out after this failed result
mustLogout(result, failures) ==
    \/ result.reason = "logged_out_from_another_device"
    \/ failures >= MAX_FAILURES

\* the login has just succeeded and startSessionValidation has set the timer
\* with consecutiveFailures = 0 (lines 409-418)
InitValidation ==
    /\ InitWith([u \in Users |-> NewUser], "nobody")
    /\ InitPlan
    /\ travel = [distance |-> 0, timeDiffMinutes |-> 0, asked |-> FALSE,
                 suspicious |-> FALSE]
    /\ InitCalc /\ InitAtStart /\ InitDat /\ InitFlags /\ InitLate
    /\ poll = [running |-> TRUE, consecutiveFailures |-> 0, inFlight |-> 0,
               logout |-> "no", results |-> <<>>]

\* the timer fires: a callback calls window.dslb.validateSession() and waits
PollFire ==
    /\ poll.running
    /\ poll.inFlight < MaxInFlight
    /\ Len(poll.results) + poll.inFlight < MaxPolls
    /\ poll' = [poll EXCEPT !.inFlight = @ + 1]
    /\ UNCHANGED <<coreVars, pollOthers>>

\* the poll after a failed result or a throw: lines 422-472 and 480-511
PollFailed(kind, logsOut) ==
    [poll EXCEPT !.inFlight = @ - 1,
                 !.consecutiveFailures = @ + 1,
                 !.results = Append(@, kind),
                 !.running = IF logsOut THEN FALSE ELSE @,
                 !.logout = IF logsOut THEN "calling" ELSE @]

\* a waiting callback gets its result (or the call throws) and handles it; once
\* auth:logout has dropped the tokens the main process has no session to validate
PollResult(outcome) ==
    /\ poll.inFlight > 0
    /\ poll.logout = "done" => outcome \in {"no_token", "throws"}
    /\ poll.logout # "done" => outcome # "no_token"
    /\ poll' =
          IF outcome = "throws"
          THEN PollFailed("failed", poll.consecutiveFailures + 1 >= MAX_FAILURES)
          ELSE LET result == validateSession(outcome)
               IN IF ~result.valid
                  THEN PollFailed(IF result.reason = "logged_out_from_another_device"
                                  THEN "other_device" ELSE "failed",
                                  mustLogout(result, poll.consecutiveFailures + 1))
                  ELSE [poll EXCEPT !.inFlight = @ - 1,
                                    !.consecutiveFailures = 0,
                                    !.results = Append(@, "valid")]
    /\ UNCHANGED <<coreVars, pollOthers>>

\* main.js auth:logout answers the callback's window.dslb.logout(...): the
\* tokens are gone and the login form is back
PollLogout ==
    /\ poll.logout = "calling"
    /\ poll' = [poll EXCEPT !.logout = "done"]
    /\ UNCHANGED <<coreVars, pollOthers>>

NextPoll ==
    \/ PollFire
    \/ \E outcome \in Outcomes : PollResult(outcome)
    \/ PollLogout

SpecPoll == InitValidation /\ [][NextPoll]_vars

\* the results so far hold a logged_out_from_another_device, or three failed
\* validations in a row
LogoutDue(results) ==
    \/ \E i \in 1..Len(results) : results[i] = "other_device"
    \/ \E i \in 1..(Len(results) - 2) :
           \A j \in i..(i + 2) : results[j] # "valid"

RECURSIVE TrailingFailures(_)
\* the failed validations since the last valid one
TrailingFailures(results) ==
    IF results = <<>> \/ results[Len(results)] = "valid" THEN 0
    ELSE 1 + TrailingFailures(SubSeq(results, 1, Len(results) - 1))

\* C28: the client's session poll logs the user out exactly when one validation
\* result carries the reason logged_out_from_another_device or three consecutive
\* validations have failed; a valid result resets the failure count to zero, and
\* fewer than three consecutive failures never cause a logout.
C28_PollLogsOutWhenDue ==
    /\ poll.logout # "no" <=> LogoutDue(poll.results)
    /\ poll.consecutiveFailures = TrailingFailures(poll.results)

\* one failure, a valid result that reset the count, then three failures in a
\* row with no other device involved: the client has logged out
C28_Witness ==
    /\ poll.results = <<"failed", "valid", "failed", "failed", "failed">>
    /\ poll.logout = "done" /\ ~poll.running

\* ---------------------------------------------------------------- login outcome
\* the step that answers a successful login that carried request metadata
LoginAnswered(r) ==
    req[r].op = "login" /\ req[r].pc = "record" /\ req'[r].pc = "done"

\* the sessionTokens the login r found active for its user
ExistingTokens(r) == {req[r].existing[k] : k \in 1..Len(req[r].existing)}

\* C29: after a successful login every SessionActivity row of that user that was
\* active before the login has isActive = false, a logoutAt timestamp and
\* logoutReason 'new_login', and the user's only active row is a new one carrying
\* the newly minted access token, which is also the user's currentSessionToken.
C29_LoginReplacesSessions ==
    [][\A r \in Reqs : \A u \in Users :
          (LoginAnswered(r) /\ req[r].uid = u)
            => /\ ActiveIds(u)' = {Len(sessions')}
               /\ sessions'[Len(sessions')].sessionToken = req'[r].tok
               /\ user'[u].currentSessionToken = req'[r].tok
               /\ \A i \in 1..Len(sessions) :
                     (sessions[i].userId = u
                        /\ sessions[i].sessionToken \in ExistingTokens(r))
                       => /\ ~sessions'[i].isActive
                          /\ sessions'[i].logoutAt # NULL
                          /\ sessions'[i].logoutReason = "new_login"]_vars

\* ---------------------------------------------------------------- failing logins
\* the awaits of login after its gate: the database call a login waits for at
\* each of these positions may reject
LoginAwaits == {"sessions", "invalidate", "clear", "alert", "commit", "record"}

\* the call the login r waits for rejects: login has no try/catch and runs in no
\* transaction, so the error is passed on to the caller (500) and what the login
\* wrote before stays written
LoginThrows(r) ==
    /\ req[r].op = "login" /\ req[r].pc \in LoginAwaits
    /\ req' = [req EXCEPT ![r] = Finish(r, "500")]
    /\ UNCHANGED <<user, sessions, loginHistory, alerts, billingHistory, minted,
                   refreshSubs, now, sweep, otherVars>>

\* alice is logged in (token 1, her only SessionActivity row), bob is not
InitFaulty ==
    /\ InitOther
    /\ InitWith([u \in Users |-> UserRow("ACTIVE", FALSE, FALSE)], "alice")

\* logins, any of which may fail at any of its awaits
NextFaulty ==
    \/ \E r \in Reqs : Login(r)
    \/ \E r \in Reqs : LoginThrows(r)

SpecFaulty == InitFaulty /\ [][NextFaulty]_vars

\* the login r, the only request so far, fails at a step up to and including the
\* user update that sets currentSessionToken
FirstLoginFails(r) ==
    /\ req[r].op = "login" /\ req[r].pc \in LoginAwaits \ {"record"}
    /\ req'[r].pc = "done" /\ req'[r].result = "500"
    /\ \A q \in Reqs \ {r} : req[q].op = "idle"

\* C30: if a step of login up to and including the user update that sets
\* currentSessionToken fails (for example the alert insert), the login has no
\* effect: the user's previously active SessionActivity rows are still active and
\* currentSessionToken has its value from before the login. Stated for the first
\* request of a run, which meets alice's row 1 active and her token 1.
C30_FailedLoginHasNoEffect ==
    [][\A r \in Reqs :
          FirstLoginFails(r)
            => /\ sessions'[1].isActive
               /\ user'["alice"].currentSessionToken = 1
               /\ user'["bob"].currentSessionToken = NULL]_vars

\* ---------------------------------------------------------------- best-effort writes
\* the login r waits for its security alert or for its LoginHistory row
RecordingLogin(r) ==
    req[r].op = "login" /\ req[r].pc \in {"alert", "record"}

\* C31: a failure while writing a LoginHistory row or a security alert during
\* login does not fail the login: the login, which had correct credentials, is
\* still answered with tokens, and the user's currentSessionToken is the
\* returned access token.
C31_RecordingFailureSwallowed ==
    [][\A r \in Reqs :
          (RecordingLogin(r) /\ req'[r].pc = "done")
            => /\ req'[r].result = "ok"
               /\ req'[r].tok # NULL
               /\ user'[req[r].uid].currentSessionToken = req'[r].tok]_vars

\* ---------------------------------------------------------------- overlapping sweeps
\* One step of a run of checkAndDisableExpiredAccounts whose position and locals
\* are s, on the tables as they are: the run's locals and the tables after the
\* step (billing.service.ts lines 320-403, step by step as the cron run above)
SweepStep(s) ==
    CASE s.pc = "idle" ->
           [run |-> [pc |-> "findTrial", at |-> now, trial |-> <<>>,
                     billing |-> SeqOf({u \in Users :
                                          /\ user[u].isBillingActive
                                          /\ user[u].billingCycleEndDate # NULL
                                          /\ user[u].billingCycleEndDate < now
                                          /\ user[u].status # "DISABLED"})],
            user |-> user, billingHistory |-> billingHistory]
      [] s.pc = "findTrial" ->
           LET tr == SeqOf({u \in Users : /\ user[u].isTrialActive
                                          /\ user[u].trialEndDate # NULL
                                          /\ user[u].trialEndDate < s.at
                                          /\ user[u].status # "DISABLED"})
               next == IF SweepAfter(s.billing, tr) = "idle" THEN "done"
                       ELSE SweepAfter(s.billing, tr)
           IN [run |-> [s EXCEPT !.trial = tr, !.pc = next],
               user |-> user, billingHistory |-> billingHistory]
      [] s.pc = "updBilling" ->
           [run |-> [s EXCEPT !.pc = "histBilling"],
            user |-> [user EXCEPT ![Head(s.billing)].status = "DISABLED",
                                  ![Head(s.billing)].isBillingActive = FALSE],
            billingHistory |-> billingHistory]
      [] s.pc = "histBilling" ->
           LET next == IF SweepAfter(Tail(s.billing), s.trial) = "idle" THEN "done"
                       ELSE SweepAfter(Tail(s.billing), s.trial)
           IN [run |-> [s EXCEPT !.billing = Tail(@), !.pc = next],
               user |-> user,
               billingHistory |-> [billingHistory EXCEPT
                                      ![Head(s.billing)]["AUTO_DISABLED"] = @ + 1]]
      [] s.pc = "updTrial" ->
           [run |-> [s EXCEPT !.pc = "histTrial"],
            user |-> [user EXCEPT ![Head(s.trial)].status = "DISABLED",
                                  ![Head(s.trial)].isTrialActive = FALSE],
            billingHistory |-> billingHistory]
      [] s.pc = "histTrial" ->
           LET next == IF SweepAfter(<<>>, Tail(s.trial)) = "idle" THEN "done"
                       ELSE SweepAfter(<<>>, Tail(s.trial))
           IN [run |-> [s EXCEPT !.trial = Tail(@), !.pc = next],
               user |-> user,
               billingHistory |-> [billingHistory EXCEPT
                                      ![Head(s.trial)]["AUTO_DISABLED"] = @ + 1]]

\* loginHistory.controller.ts checkExpiredAccountsHandler: one step of the sweep
\* an administrator started with POST /billing/check-expired; the request is
\* answered once its sweep has returned
checkExpiredAccountsHandler ==
    /\ manual.pc # "done"
    /\ LET n == SweepStep(manual)
       IN /\ manual' = n.run
          /\ user' = n.user
          /\ billingHistory' = n.billingHistory
    /\ UNCHANGED <<sessions, loginHistory, alerts, minted, refreshSubs, now, req,
                   sweep, travel, payments, planReq, manualOthers>>

\* the scheduler's sweep and an administrator's sweep at one instant, from any
\* rows the billing service leaves behind
NextOverlap ==
    \/ checkAndDisableExpiredAccounts
    \/ checkExpiredAccountsHandler

SpecOverlap == InitSweep /\ [][NextOverlap]_vars

\* C32: when two sweeps overlap in time, each expired user is disabled once and
\* receives exactly one AUTO_DISABLED BillingHistory row.
C32_OneRowPerExpiredUser ==
    \A u \in Users :
        billingHistory[u]["AUTO_DISABLED"]
            <= atStart.billingHistory[u]["AUTO_DISABLED"] + 1

\* ---------------------------------------------------------------- failing sweeps
\* A write of the sweep rejects (a database error): the sweep has no try/catch and
\* no transaction, the rejection leaves its loop, and the scheduler's callback
\* logs it (part_006 lines 22-27); the next run starts from its queries again
SweepThrows ==
    /\ sweep.pc \in {"updBilling", "histBilling", "updTrial", "histTrial"}
    /\ sweep' = [sweep EXCEPT !.pc = "idle", !.billing = <<>>, !.trial = <<>>]
    /\ UNCHANGED <<user, sessions, loginHistory, alerts, billingHistory, minted,
                   refreshSubs, now, req, otherVars>>

NextSweepFaulty ==
    \/ checkAndDisableExpiredAccounts
    \/ SweepThrows

SpecSweepFaulty == InitSweep /\ [][NextSweepFaulty]_vars

\* C33: whenever no sweep is between its writes, also after a sweep that failed
\* in the middle, every user the sweep set to DISABLED has the AUTO_DISABLED row
\* that goes with it.
C33_DisabledHasRow ==
    sweep.pc = "idle"
      => \A u \in Users :
            (user[u].status = "DISABLED" /\ atStart.user[u].status # "DISABLED")
              => billingHistory[u]["AUTO_DISABLED"]
                    > atStart.billingHistory[u]["AUTO_DISABLED"]

\* ---------------------------------------------------------------- sweeps against payments
\* the sweeper's next step is its disabling write for the user u
SweepWrites(u) ==
    \/ sweep.pc = "updBilling" /\ Head(sweep.billing) = u /\ sweep'.pc = "histBilling"
    \/ sweep.pc = "updTrial" /\ Head(sweep.trial) = u /\ sweep'.pc = "histTrial"

\* C35: the sweeper never disables a user whose plan is valid at the moment of
\* the disabling write: a plan committed between the sweep's read and its update
\* of the user keeps the user's status and active flag.
C35_SweepSparesValidPlan ==
    [][\A u \in Users :
          (SweepWrites(u) /\ PlanRunning(user[u], now))
            => /\ user'[u].status = user[u].status
               /\ PlanRunning(user'[u], now)]_vars

\* ---------------------------------------------------------------- concurrent payments
\* addPayment, lines 95-104, for a request that arrives while another one is
\* still being served: Express serves requests as they arrive
AddPaymentArrives(a, u, cycle) ==
    /\ planReq[a].op = "idle"
    /\ LET cycleStart == cycleStartOf(user[u].billingCycleEndDate, now)
       IN planReq' = [planReq EXCEPT ![a] =
              [IdlePlan EXCEPT !.op = "addPayment", !.pc = "payment", !.uid = u,
                               !.cycle = cycle, !.at = now,
                               !.statusRead = user[u].status,
                               !.endRead = user[u].billingCycleEndDate,
                               !.start = cycleStart,
                               !.end = calculateCycleEndDate(cycleStart, cycle)]]
    /\ UNCHANGED <<user, billingHistory, payments, sessionVars>>

\* the admin's add-payment requests, served concurrently, while the clock advances
NextPayments ==
    \/ \E a \in PlanReqs, u \in Users, cycle \in PlanCycles : AddPaymentArrives(a, u, cycle)
    \/ \E a \in PlanReqs : AddPaymentCreate(a)
    \/ \E a \in PlanReqs : AddPaymentUpdate(a)
    \/ \E a \in PlanReqs : AddPaymentHistory(a)
    \/ Tick

SpecPayments == InitPlans /\ [][NextPayments]_vars

\* the Payment rows of the user u
PaymentsOf(u) == {i \in 1..Len(payments) : payments[i].userId = u}

\* every add-payment request has been answered
PaymentsAnswered == \A a \in PlanReqs : planReq[a].pc \in {"idle", "done"}

\* C36: once the add-payment requests for a user are answered, also when they
\* ran concurrently, the user's billingCycleEndDate is the largest cycleEndDate
\* among the user's Payment rows and no two of these rows cover overlapping
\* intervals.
C36_PaymentsAddUp ==
    PaymentsAnswered =>
        \A u \in Users :
            /\ \A i \in PaymentsOf(u) :
                   user[u].billingCycleEndDate >= payments[i].cycleEndDate
            /\ \A i \in PaymentsOf(u), j \in PaymentsOf(u) :
                   i < j => \/ payments[i].cycleEndDate <= payments[j].cycleStartDate
                            \/ payments[j].cycleEndDate <= payments[i].cycleStartDate

\* ---------------------------------------------------------------- billing job
MaxStarts == 2      \* calls of startBillingJob that schedule a job
MaxJobSweeps == 3   \* sweeps the job's callbacks start

\* part_006 startBillingJob, lines 11-52: returns when billingJob is set;
\* otherwise schedules the hourly task, keeps it in billingJob, and sets the
\* 5 second timer of the startup sweep
startBillingJob ==
    /\ IF jobs.billingJob
       THEN jobs' = [jobs EXCEPT !.stopped = FALSE]
       ELSE /\ jobs.starts < MaxStarts
            /\ jobs' = [jobs EXCEPT !.billingJob = TRUE, !.tasks = @ + 1,
                                    !.timers = @ + 1, !.starts = @ + 1,
                                    !.stopped = FALSE]
    /\ UNCHANGED <<coreVars, jobsOthers>>

\* stopBillingJob, lines 57-63: stops the task held in billingJob and clears it
stopBillingJob ==
    /\ IF jobs.billingJob
       THEN jobs' = [jobs EXCEPT !.billingJob = FALSE, !.tasks = @ - 1,
                                 !.stopped = TRUE]
       ELSE jobs' = [jobs EXCEPT !.stopped = TRUE]
    /\ UNCHANGED <<coreVars, jobsOthers>>

\* lines 20-35: the hour strikes and a scheduled task's callback starts a sweep
CronFires ==
    /\ jobs.tasks > 0
    /\ jobs.sweeps < MaxJobSweeps
    /\ jobs' = [jobs EXCEPT !.sweeps = @ + 1]
    /\ UNCHANGED <<coreVars, jobsOthers>>

\* lines 38-51: a startup timer runs out and its callback starts a sweep
StartupTimerFires ==
    /\ jobs.timers > 0
    /\ jobs.sweeps < MaxJobSweeps
    /\ jobs' = [jobs EXCEPT !.timers = @ - 1, !.sweeps = @ + 1]
    /\ UNCHANGED <<coreVars, jobsOthers>>

\* the server starts and stops its billing job while the clock advances
NextJobs ==
    \/ startBillingJob
    \/ stopBillingJob
    \/ CronFires
    \/ StartupTimerFires
    \/ Tick

SpecJobs == Init /\ [][NextJobs]_vars

\* C37: at most one hourly task is scheduled at a time, and once stopBillingJob
\* has returned no sweep is started until startBillingJob is called again, the
\* sweep of the 5 second startup timer included.
C37_NoSweepAfterStop ==
    [][/\ jobs'.tasks <= 1
       /\ jobs.stopped /\ jobs'.stopped => jobs'.sweeps = jobs.sweeps]_vars

\* ---------------------------------------------------------------- proxy login
MAX_PROXY_AUTH_ATTEMPTS == 5
MaxLoginEvents == 8   \* login events Electron raises

\* the authKey of the proxies that ask: host:port
AuthKeys == {"proxyA:3128", "proxyB:3128"}

\* main.js app.on('login'), lines 734-795, with proxy credentials configured:
\* nothing for a request that is not a proxy's; at MAX_PROXY_AUTH_ATTEMPTS
\* attempts the error box and no answer; otherwise the attempt is counted, the
\* credentials are supplied and the 10 second reset timer is set
LoginEvent(k, isProxy) ==
    /\ proxy.events < MaxLoginEvents
    /\ LET attempts == proxy.attempts[k]
       IN IF ~isProxy
          THEN proxy' = [proxy EXCEPT !.events = @ + 1]
          ELSE IF attempts >= MAX_PROXY_AUTH_ATTEMPTS
          THEN proxy' = [proxy EXCEPT !.events = @ + 1,
                                      !.dialogs[k] = IF attempts = MAX_PROXY_AUTH_ATTEMPTS
                                                     THEN @ + 1 ELSE @]
          ELSE proxy' = [proxy EXCEPT !.events = @ + 1,
                                      !.attempts[k] = attempts + 1,
                                      !.supplied[k] = @ + 1,
                                      !.timers[k] = @ + 1]
    /\ UNCHANGED <<coreVars, proxyOthers>>

\* lines 787-794: a reset timer runs out; the entry of the pair is deleted when
\* the page has loaded (the window is alive and shows an https URL)
ResetTimerFires(k, loaded) ==
    /\ proxy.timers[k] > 0
    /\ proxy' = [proxy EXCEPT !.timers[k] = @ - 1,
                              !.attempts[k] = IF loaded THEN 0 ELSE @,
                              !.supplied[k] = IF loaded THEN 0 ELSE @,
                              !.dialogs[k] = IF loaded THEN 0 ELSE @]
    /\ UNCHANGED <<coreVars, proxyOthers>>

NextProxy ==
    \/ \E k \in AuthKeys, isProxy \in BOOLEAN : LoginEvent(k, isProxy)
    \/ \E k \in AuthKeys, loaded \in BOOLEAN : ResetTimerFires(k, loaded)

SpecProxy == Init /\ [][NextProxy]_vars

\* C34: for every (host, port) pair the handler supplies credentials at most 5
\* times without a successful page load in between, and once it has stopped
\* answering for the pair it shows the 'Proxy Authentication Failed' dialog
\* exactly once.
C34_ProxyAuthBounded ==
    \A k \in AuthKeys :
        /\ proxy.supplied[k] <= MAX_PROXY_AUTH_ATTEMPTS
        /\ proxy.dialogs[k] <= 1

\* ---------------------------------------------------------------- login form
MaxSubmits == 4   \* submit events of the login form

\* part_008 lines 191-264, the submit listener that tracks isLoggingIn, up to its
\* await of window.dslb.login: the form f after it ran with these inputs
GuardedSubmit(f, email, password) ==
    IF f.isLoggingIn THEN f
    ELSE IF ~email THEN f
    ELSE IF ~f.emailEntered THEN [f EXCEPT !.emailEntered = TRUE]
    ELSE IF ~password THEN f
    ELSE [f EXCEPT !.isLoggingIn = TRUE, !.guarded = @ + 1, !.issued = @ + 1]

\* lines 519-544, the submit listener registered for the capture phase, up to
\* its await of window.dslb.login
CaptureSubmit(f, email, password) ==
    IF ~email THEN f
    ELSE IF ~f.emailEntered THEN [f EXCEPT !.emailEntered = TRUE]
    ELSE IF ~password THEN f
    ELSE [f EXCEPT !.unguarded = @ + 1, !.issued = @ + 1]

\* the requests window.dslb.login has not answered yet
LoginsInFlight(f) == f.guarded + f.unguarded

\* One submit event of the form: both listeners are on the form itself and both
\* run, in the order the browser gives listeners of the target (capture first
\* in current Chromium, registration order before)
Submit(email, password, captureFirst) ==
    /\ form.submits < MaxSubmits
    /\ LET f == [form EXCEPT !.submits = @ + 1, !.issued = 0,
                             !.ready = /\ email /\ password /\ form.emailEntered
                                       /\ LoginsInFlight(form) = 0]
       IN form' = IF captureFirst
                  THEN GuardedSubmit(CaptureSubmit(f, email, password), email, password)
                  ELSE CaptureSubmit(GuardedSubmit(f, email, password), email, password)
    /\ UNCHANGED <<coreVars, formOthers>>

\* lines 170-177: the email field loses focus with an address in it
EmailBlur ==
    /\ ~form.emailEntered /\ ~form.isLoggingIn
    /\ form' = [form EXCEPT !.emailEntered = TRUE]
    /\ UNCHANGED <<coreVars, formOthers>>

\* lines 264-375: window.dslb.login answers the guarded listener; isLoggingIn is
\* cleared on an error and, in the finally block, unless the form was hidden
GuardedLoginReturns(hidden) ==
    /\ form.guarded > 0
    /\ form' = [form EXCEPT !.guarded = @ - 1,
                            !.isLoggingIn = IF hidden THEN @ ELSE FALSE]
    /\ UNCHANGED <<coreVars, formOthers>>

\* lines 544-615: window.dslb.login answers the capture listener
CaptureLoginReturns ==
    /\ form.unguarded > 0
    /\ form' = [form EXCEPT !.unguarded = @ - 1]
    /\ UNCHANGED <<coreVars, formOthers>>

NextForm ==
    \/ \E email \in BOOLEAN, password \in BOOLEAN, captureFirst \in BOOLEAN :
           Submit(email, password, captureFirst)
    \/ EmailBlur
    \/ \E hidden \in BOOLEAN : GuardedLoginReturns(hidden)
    \/ CaptureLoginReturns

SpecForm == Init /\ [][NextForm]_vars

\* C38: at most one login request of the login form is in flight at any time,
\* and a single submit with email and password entered, while none is in
\* flight, issues exactly one login request.
C38_OneLoginInFlight ==
    /\ LoginsInFlight(form) <= 1
    /\ form.ready => form.issued = 1

\* ---------------------------------------------------------------- launchSession
maxRetries == 3
MaxLaunchCalls == 2   \* calls of launchSession

\* what a thrown error's message contains: the words of a download error and
\* the words of a window launch error (main.js lines 1242-1253)
ErrorKinds == [download : BOOLEAN, window : BOOLEAN]

LaunchCalls == 1..Len(launcher.calls)

\* a call is past the guard and has not returned
InProgress(call) == call.pc \notin {"done"}

\* the catch and finally blocks leaving isLaunchingSession set
launchSessionReturnsKeepingFlag(c, result) ==
    [launcher EXCEPT !.calls[c].pc = "done", !.calls[c].result = result]

\* lines 1339-1354: the call c returns the result, through the finally block
launchSessionReturns(c, result) ==
    [launcher EXCEPT !.calls[c].pc = "done", !.calls[c].result = result,
                     !.isLaunchingSession = FALSE]

\* lines 1174-1182: a call arrives; it returns at once when a launch is in
\* progress, otherwise it sets the flag and, with a DAT window open, closes it
launchSession(windowOpen) ==
    /\ Len(launcher.calls) < MaxLaunchCalls
    /\ launcher' =
         IF launcher.isLaunchingSession
         THEN [launcher EXCEPT !.calls = Append(@,
                  [pc |-> "done", attempt |-> 0, downloads |-> 0,
                   downloadSuccess |-> FALSE, result |-> "in progress"])]
         ELSE [launcher EXCEPT !.isLaunchingSession = TRUE,
                               !.calls = Append(@,
                  [pc |-> IF windowOpen THEN "closing" ELSE "download",
                   attempt |-> 1, downloads |-> 0,
                   downloadSuccess |-> FALSE, result |-> "none"])]
    /\ UNCHANGED <<coreVars, launcherOthers>>

\* lines 1186-1215: the tabs and the old window are closed, or closing throws
LaunchCloses(c, throws) ==
    /\ launcher.calls[c].pc = "closing"
    /\ launcher' = IF throws THEN launchSessionReturns(c, "failure")
                   ELSE [launcher EXCEPT !.calls[c].pc = "download"]
    /\ UNCHANGED <<coreVars, launcherOthers>>

\* lines 1240-1279: the inner catch for an error of these kinds, the retry and
\* the test after the loop
LaunchCaught(c, kinds) ==
    LET call == launcher.calls[c]
    IN IF kinds.window /\ call.downloadSuccess
       THEN launchSessionReturns(c, "failure")
       ELSE IF kinds.download \/ ~call.downloadSuccess
       THEN IF call.attempt < maxRetries
            THEN [launcher EXCEPT !.calls[c].pc = "download",
                                  !.calls[c].attempt = @ + 1]
            ELSE IF ~call.downloadSuccess
            THEN launchSessionReturns(c, "failure")
            ELSE [launcher EXCEPT !.calls[c].pc = "visible"]
       ELSE launchSessionReturns(c, "failure")

\* lines 1227-1233: downloadSessionBundle answers or throws
DownloadReturns(c, ok, kinds) ==
    /\ launcher.calls[c].pc = "download"
    /\ LET counted == [launcher EXCEPT !.calls[c].downloads = @ + 1]
       IN launcher' =
            IF ok THEN [counted EXCEPT !.calls[c].downloadSuccess = TRUE,
                                       !.calls[c].pc = "launch"]
            ELSE [LaunchCaught(c, kinds) EXCEPT !.calls[c].downloads = @ + 1]
    /\ UNCHANGED <<coreVars, launcherOthers>>

\* lines 1237-1238: launchDatWindow answers, which leaves the loop, or throws
LaunchWindowReturns(c, ok, kinds) ==
    /\ launcher.calls[c].pc = "launch"
    /\ launcher' = IF ok THEN [launcher EXCEPT !.calls[c].pc = "visible"]
                   ELSE LaunchCaught(c, kinds)
    /\ UNCHANGED <<coreVars, launcherOthers>>

\* lines 1281-1339: the bounded wait for the window to show, then success
LaunchShown(c) ==
    /\ launcher.calls[c].pc = "visible"
    /\ launcher' = launchSessionReturns(c, "success")
    /\ UNCHANGED <<coreVars, launcherOthers>>

NextLaunch ==
    \/ \E windowOpen \in BOOLEAN : launchSession(windowOpen)
    \/ \E c \in LaunchCalls, throws \in BOOLEAN : LaunchCloses(c, throws)
    \/ \E c \in LaunchCalls, ok \in BOOLEAN, kinds \in ErrorKinds :
           DownloadReturns(c, ok, kinds)
    \/ \E c \in LaunchCalls, ok \in BOOLEAN, kinds \in ErrorKinds :
           LaunchWindowReturns(c, ok, kinds)
    \/ \E c \in LaunchCalls : LaunchShown(c)

SpecLaunch == Init /\ [][NextLaunch]_vars

\* C39: at most one call of launchSession is past its guard at a time, a call
\* makes at most 3 download attempts, one that never downloaded returns
\* success false after the third, and isLaunchingSession is false whenever no
\* call is in progress, after success and after every error.
C39_LaunchExclusiveAndBounded ==
    /\ Cardinality({c \in LaunchCalls : InProgress(launcher.calls[c])}) <= 1
    /\ \A c \in LaunchCalls :
          /\ launcher.calls[c].downloads <= maxRetries
          /\ ( /\ launcher.calls[c].downloads = maxRetries
               /\ ~launcher.calls[c].downloadSuccess
               /\ ~InProgress(launcher.calls[c]) )
                => launcher.calls[c].result = "failure"
    /\ launcher.isLaunchingSession
          <=> \E c \in LaunchCalls : InProgress(launcher.calls[c])

\* a call gave up after its third download while a second call was turned away
C39_Witness ==
    \E c \in LaunchCalls, d \in LaunchCalls :
        /\ launcher.calls[c].result = "failure"
        /\ launcher.calls[c].downloads = maxRetries
        /\ launcher.calls[d].result = "in progress"
        /\ ~launcher.isLaunchingSession

\* ---------------------------------------------------------------- TabManager
MaxTabs == 4   \* tabs createTab makes

TabIds == 1..MaxTabs

\* the keys of the tabs map
TabKeys(tm) == {tm.tabs[i] : i \in 1..Len(tm.tabs)}

\* the tabs map without the key tabId, the order of the others kept
RECURSIVE WithoutTab(_, _)
WithoutTab(tabs, tabId) ==
    IF tabs = <<>> THEN <<>>
    ELSE IF Head(tabs) = tabId THEN WithoutTab(Tail(tabs), tabId)
    ELSE <<Head(tabs)>> \o WithoutTab(Tail(tabs), tabId)

\* part_001 switchToTab, lines 332-377, on the TabManager tm: nothing for an
\* unknown tab or a destroyed window, otherwise the tab becomes the active one
switchToTab(tm, tabId) ==
    IF tabId \notin TabKeys(tm) THEN tm
    ELSE IF tm.windowDestroyed THEN tm
    ELSE [tm EXCEPT !.activeTabId = tabId]

\* createTab, lines 31-120: the next id, the entry in the map, switchToTab
createTab ==
    /\ tabManager.tabCounter < MaxTabs
    /\ LET tabId == tabManager.tabCounter + 1
       IN tabManager' = switchToTab([tabManager EXCEPT !.tabCounter = tabId,
                                                       !.tabs = Append(@, tabId)], tabId)
    /\ UNCHANGED <<coreVars, tabManagerOthers>>

\* a request to show the tab tabId (tab bar click)
SwitchTab(tabId) ==
    /\ tabManager' = switchToTab(tabManager, tabId)
    /\ tabManager' # tabManager
    /\ UNCHANGED <<coreVars, tabManagerOthers>>

\* closeTab, lines 379-435: the entry is deleted; when it was the active tab,
\* switchToTab to the last remaining key, or null when none remains
closeTab(tabId) ==
    /\ tabId \in TabKeys(tabManager)
    /\ LET closed == [tabManager EXCEPT !.tabs = WithoutTab(@, tabId)]
       IN tabManager' =
            IF tabManager.activeTabId = tabId
            THEN IF closed.tabs # <<>>
                 THEN switchToTab(closed, closed.tabs[Len(closed.tabs)])
                 ELSE [closed EXCEPT !.activeTabId = NULL]
            ELSE closed
    /\ UNCHANGED <<coreVars, tabManagerOthers>>

\* destroy, lines 497-539
destroy ==
    /\ tabManager.tabs # <<>>
    /\ tabManager' = [tabManager EXCEPT !.tabs = <<>>, !.activeTabId = NULL]
    /\ UNCHANGED <<coreVars, tabManagerOthers>>

\* the user closes the window: window.isDestroyed() is true from now on
WindowDestroyed ==
    /\ ~tabManager.windowDestroyed
    /\ tabManager' = [tabManager EXCEPT !.windowDestroyed = TRUE]
    /\ UNCHANGED <<coreVars, tabManagerOthers>>

NextTabs ==
    \/ createTab
    \/ \E tabId \in TabIds : SwitchTab(tabId)
    \/ \E tabId \in TabIds : closeTab(tabId)
    \/ destroy
    \/ WindowDestroyed

SpecTabs == Init /\ [][NextTabs]_vars

\* C40: after any sequence of createTab, switchToTab, closeTab and destroy,
\* activeTabId is null or the id of a tab in the tabs map, also when the window
\* has been destroyed.
C40_ActiveTabExists ==
    \/ tabManager.activeTabId = NULL
    \/ tabManager.activeTabId \in TabKeys(tabManager)
====
